---- MODULE Spec2Model ----
(***************************************************************************)
(* Pipeline execution engine of AgentService (agent.service.ts):           *)
(* buildExecutionOrder (the scheduler) and executePipeline (the executor   *)
(* with its PipelineState), as state machines.                             *)
(*                                                                         *)
(* Strings are TLA+ strings; TLC evaluates Len, \o and SubSeq on them, so  *)
(* toLowerCase, trim and includes are computed character by character.     *)
(***************************************************************************)
EXTENDS Integers, Sequences, FiniteSets, TLC

VARIABLES
    pipeline,        \* the PipelineDefinition being scheduled / run
    userInput,       \* executePipeline's userInput argument
    pc,              \* position of the run
    orderedNodeIds,  \* const orderedNodeIds = this.buildExecutionOrder(pipeline)
    warnings,        \* messages passed to this.logger.warn, in order
    idx,             \* position of the for..of loop in orderedNodeIds
    state,           \* the run's PipelineState
    steps,           \* the run's step trace (PipelineStepDto[])
    inflight,        \* node ids whose awaited call has started and not settled
    locals,          \* the locals of the node whose call is awaited
    calls,           \* the external calls started so far, in order
    result           \* what executePipeline returned or threw

vars == <<pipeline, userInput, pc, orderedNodeIds, warnings, idx, state, steps,
          inflight, locals, calls, result>>

----------------------------------------------------------------------------
(* Bounds of the model                                                     *)

\* scheduler inputs: nodes and edges of a pipeline
MaxNodes == 3
MaxEdges == 2
\* executor inputs: nodes of a pipeline that is run
MaxRunNodes == 2

----------------------------------------------------------------------------
(* Strings                                                                 *)

Ch(s, i) == SubSeq(s, i, i)

UpperChars == "ABCDEFGHIJKLMNOPQRSTUVWXYZ"
LowerChars == "abcdefghijklmnopqrstuvwxyz"

LowerChar(c) ==
    IF \E i \in 1..26 : Ch(UpperChars, i) = c
    THEN Ch(LowerChars, CHOOSE i \in 1..26 : Ch(UpperChars, i) = c)
    ELSE c

RECURSIVE ToLowerCase(_)
ToLowerCase(s) ==
    IF Len(s) = 0 THEN ""
    ELSE IF Len(s) = 1 THEN LowerChar(s)
    ELSE LET half == Len(s) \div 2
         IN  ToLowerCase(SubSeq(s, 1, half)) \o ToLowerCase(SubSeq(s, half + 1, Len(s)))

\* String.prototype.includes
Includes(s, sub) ==
    \E i \in 1..(Len(s) - Len(sub) + 1) : SubSeq(s, i, i + Len(sub) - 1) = sub

\* the white space String.prototype.trim removes (those the model's texts use)
IsSpace(c) == c \in {" ", "\n", "\t"}

RECURSIVE TrimStart(_)
TrimStart(s) ==
    IF Len(s) > 0 /\ IsSpace(Ch(s, 1)) THEN TrimStart(SubSeq(s, 2, Len(s))) ELSE s

RECURSIVE TrimEnd(_)
TrimEnd(s) ==
    IF Len(s) > 0 /\ IsSpace(Ch(s, Len(s))) THEN TrimEnd(SubSeq(s, 1, Len(s) - 1)) ELSE s

Trim(s) == TrimEnd(TrimStart(s))

----------------------------------------------------------------------------
(* Sequences                                                               *)

Range(seq) == { seq[i] : i \in DOMAIN seq }

\* Array.prototype.includes
Contains(seq, x) == \E i \in DOMAIN seq : seq[i] = x

Occurrences(seq, x) == Cardinality({ i \in DOMAIN seq : seq[i] = x })

\* index of the first occurrence of x in seq (0 when absent)
IndexOf(seq, x) ==
    IF Contains(seq, x) THEN CHOOSE i \in DOMAIN seq :
                                 seq[i] = x /\ \A j \in 1..(i - 1) : seq[j] # x
    ELSE 0

\* all sequences over S of length 0..n
SeqsUpTo(S, n) == UNION { [1..k -> S] : k \in 0..n }

\* sequences without a repeated element
Distinct(seq) == \A i, j \in DOMAIN seq : i # j => seq[i] # seq[j]

\* Map.prototype.get(k) ?? d
MapGet(m, k, d) == IF k \in DOMAIN m THEN m[k] ELSE d

----------------------------------------------------------------------------
(* Pipeline definitions                                                    *)

\* pipeline.nodes.map(node => node.id)
NodeIds(p) == [i \in DOMAIN p.nodes |-> p.nodes[i].id]

\* pipeline.edges?.length: a definition without "edges" counts as length 0
EdgesLength(p) == IF p.hasEdges THEN Len(p.edges) ELSE 0

----------------------------------------------------------------------------
(* buildExecutionOrder                                                     *)

\* pipeline.nodes.forEach(node => incomingCount.set(node.id, 0))
NodeCounts(p) == [id \in Range(NodeIds(p)) |-> 0]

\* pipeline.edges.forEach: the incomingCount half
RECURSIVE CountIncoming(_, _)
CountIncoming(inc, edges) ==
    IF edges = <<>> THEN inc
    ELSE LET e == Head(edges)
             base == IF e.to \in DOMAIN inc THEN inc ELSE inc @@ (e.to :> 0)
         IN  CountIncoming([base EXCEPT ![e.to] = MapGet(base, e.to, 0) + 1],
                           Tail(edges))

IncomingCount(p) == CountIncoming(NodeCounts(p), p.edges)

\* pipeline.nodes.forEach(node => adjacency.set(node.id, []))
NodeAdjacency(p) == [id \in Range(NodeIds(p)) |-> <<>>]

\* pipeline.edges.forEach: the adjacency half
RECURSIVE CollectAdjacency(_, _)
CollectAdjacency(adj, edges) ==
    IF edges = <<>> THEN adj
    ELSE LET e == Head(edges)
             base == IF e.from \in DOMAIN adj THEN adj ELSE adj @@ (e.from :> <<>>)
         IN  CollectAdjacency([base EXCEPT ![e.from] = Append(@, e.to)], Tail(edges))

Adjacency(p) == CollectAdjacency(NodeAdjacency(p), p.edges)

\* the initial queue: the declared ids whose incoming count is 0, as declared
InitialQueue(p) ==
    LET inc == IncomingCount(p)
    IN  SelectSeq(NodeIds(p), LAMBDA id : MapGet(inc, id, 0) = 0)

\* neighbors.forEach: decrement, and queue.push(neighbor) on reaching 0
RECURSIVE VisitNeighbors(_, _, _)
VisitNeighbors(neighbors, queue, inc) ==
    IF neighbors = <<>> THEN [queue |-> queue, inc |-> inc]
    ELSE LET neighbor == Head(neighbors)
             currentIncoming == MapGet(inc, neighbor, 0)
             inc2 == IF neighbor \in DOMAIN inc
                     THEN [inc EXCEPT ![neighbor] = currentIncoming - 1]
                     ELSE inc @@ (neighbor :> currentIncoming - 1)
         IN  VisitNeighbors(Tail(neighbors),
                            IF MapGet(inc2, neighbor, 0) = 0
                            THEN Append(queue, neighbor) ELSE queue,
                            inc2)

\* queue.shift(): the element taken and the queue left
QueueShift(queue) == [current |-> Head(queue), rest |-> Tail(queue)]

\* while (queue.length) { ... }: the order the loop leaves
RECURSIVE KahnLoop(_, _, _, _)
KahnLoop(queue, order, inc, adj) ==
    IF Len(queue) = 0 THEN order
    ELSE LET shifted == QueueShift(queue)
             current == shifted.current
         IN  IF current = ""            \* if (!current) continue;
             THEN KahnLoop(shifted.rest, order, inc, adj)
             ELSE LET v == VisitNeighbors(MapGet(adj, current, <<>>),
                                          shifted.rest, inc)
                  IN  KahnLoop(v.queue, Append(order, current), v.inc, adj)

\* the order when the while loop ends
KahnOrder(p) == KahnLoop(InitialQueue(p), <<>>, IncomingCount(p), Adjacency(p))

\* whether the sweep of the remaining nodes runs
NeedsSweep(order, p) == Len(order) # Len(p.nodes)

\* a sweep that appends the left-over nodes last-declared first
RemainingReversed(order, p) ==
    LET rest == SelectSeq(NodeIds(p), LAMBDA id : ~Contains(order, id))
    IN  [i \in 1..Len(rest) |-> rest[Len(rest) + 1 - i]]

\* pipeline.nodes.map(node => node.id).filter(nodeId => !order.includes(nodeId))
Remaining(order, p) == SelectSeq(NodeIds(p), LAMBDA id : ~Contains(order, id))

\* an ordering without the shortcut for a pipeline that has no edges
BuildExecutionOrderNoShortcut(p) ==
    LET order == KahnOrder(p)
    IN  IF NeedsSweep(order, p) THEN order \o Remaining(order, p) ELSE order

BuildExecutionOrder(p) ==
    IF EdgesLength(p) = 0 THEN NodeIds(p)
    ELSE LET order == KahnOrder(p)
         IN  IF NeedsSweep(order, p) THEN order \o Remaining(order, p) ELSE order

CyclicWarning == "contains disconnected or cyclic nodes"

\* the logger.warn calls of buildExecutionOrder
BuildExecutionOrderWarnings(p) ==
    IF EdgesLength(p) = 0 THEN <<>>
    ELSE IF NeedsSweep(KahnOrder(p), p) THEN <<CyclicWarning>> ELSE <<>>

----------------------------------------------------------------------------
(* JavaScript values                                                       *)
(*                                                                         *)
(* A value of type `any` carries its typeof: a string, a number (held in   *)
(* ten-thousandths), an array, an object (its own properties in insertion       *)
(* order), null or undefined. PipelineState's string fields are strings.   *)

Str(s) == [t |-> "string", s |-> s]
Num(scaled) == [t |-> "number", scaled |-> scaled]
Arr(items) == [t |-> "array", items |-> items]
Obj(props) == [t |-> "object", props |-> props]
Null == [t |-> "null"]
Undefined == [t |-> "undefined"]

IsString(v) == v.t = "string"                       \* typeof v === 'string'
IsObject(v) == v.t \in {"object", "array", "null"}  \* typeof v === 'object'
IsNullish(v) == v.t \in {"null", "undefined"}       \* v === undefined || v === null

Prop(key, v) == [key |-> key, value |-> v]

HasProp(v, key) == v.t = "object" /\ \E i \in DOMAIN v.props : v.props[i].key = key

\* v.key (undefined when v has no such property)
GetProp(v, key) ==
    IF HasProp(v, key)
    THEN v.props[CHOOSE i \in DOMAIN v.props : v.props[i].key = key].value
    ELSE Undefined

\* the truthiness JavaScript gives a value
Truthy(v) ==
    CASE v.t = "string" -> v.s # ""
      [] v.t = "number" -> v.scaled # 0
      [] v.t \in {"null", "undefined"} -> FALSE
      [] OTHER -> TRUE

Digits == "0123456789"

RECURSIVE NatToString(_)
NatToString(n) ==
    IF n < 10 THEN Ch(Digits, n + 1)
    ELSE NatToString(n \div 10) \o Ch(Digits, (n % 10) + 1)

\* the four fraction digits of a number held in ten-thousandths, trailing zeros
\* dropped
RECURSIVE FractionDigits(_, _)
FractionDigits(frac, width) ==
    IF frac = 0 THEN ""
    ELSE LET unit == 10 ^ (width - 1)
         IN  Ch(Digits, (frac \div unit) + 1) \o FractionDigits(frac % unit, width - 1)

\* String(n) of a number
NumberToString(scaled) ==
    LET abs == IF scaled < 0 THEN 0 - scaled ELSE scaled
        whole == NatToString(abs \div 10000)
        frac == FractionDigits(abs % 10000, 4)
    IN  (IF scaled < 0 THEN "-" ELSE "") \o whole \o (IF frac = "" THEN "" ELSE "." \o frac)

\* the escapes JSON.stringify applies inside a string literal
JsonEscapeChar(c) ==
    CASE c = "\"" -> "\\\""
      [] c = "\\" -> "\\\\"
      [] c = "\n" -> "\\n"
      [] c = "\t" -> "\\t"
      [] OTHER -> c

RECURSIVE JsonEscape(_)
JsonEscape(s) ==
    IF Len(s) = 0 THEN ""
    ELSE IF Len(s) = 1 THEN JsonEscapeChar(s)
    ELSE LET half == Len(s) \div 2
         IN  JsonEscape(SubSeq(s, 1, half)) \o JsonEscape(SubSeq(s, half + 1, Len(s)))

JsonQuote(s) == "\"" \o JsonEscape(s) \o "\""

RECURSIVE JsonStringify(_)
RECURSIVE JsonItems(_, _)
RECURSIVE JsonProps(_, _)

\* the elements of an array: undefined prints as null
JsonItems(items, first) ==
    IF items = <<>> THEN ""
    ELSE LET v == Head(items)
             text == IF v.t = "undefined" THEN "null" ELSE JsonStringify(v)
         IN  (IF first THEN "" ELSE ",") \o text \o JsonItems(Tail(items), FALSE)

\* the properties of an object: an undefined property is left out
JsonProps(props, first) ==
    IF props = <<>> THEN ""
    ELSE LET p == Head(props)
         IN  IF p.value.t = "undefined" THEN JsonProps(Tail(props), first)
             ELSE (IF first THEN "" ELSE ",") \o JsonQuote(p.key) \o ":"
                  \o JsonStringify(p.value) \o JsonProps(Tail(props), FALSE)

\* JSON.stringify(v) for a v that is not undefined
JsonStringify(v) ==
    CASE v.t = "string" -> JsonQuote(v.s)
      [] v.t = "number" -> NumberToString(v.scaled)
      [] v.t = "array"  -> "[" \o JsonItems(v.items, TRUE) \o "]"
      [] v.t = "object" -> "{" \o JsonProps(v.props, TRUE) \o "}"
      [] OTHER -> "null"

\* String(v) of a value that is neither a string nor an object
StringOf(v) ==
    CASE v.t = "number" -> NumberToString(v.scaled)
      [] v.t = "undefined" -> "undefined"
      [] v.t = "string" -> v.s
      [] OTHER -> "null"

----------------------------------------------------------------------------
(* interpolatePrompt / resolveTemplateToken                                *)

\* the characters the regular expression's "." does not match
IsLineTerminator(c) == c \in {"\n", "\r"}

\* First match of /\{(.*?)\}/ in t: [from, to], or from = 0 when there is none.
\* A "{" matches with the nearest "}" after it when no line terminator lies between.
FirstPlaceholder(t) ==
    LET Closes(i, j) == /\ Ch(t, j) = "}"
                        /\ \A k \in (i + 1)..(j - 1) :
                              Ch(t, k) # "}" /\ ~IsLineTerminator(Ch(t, k))
        Opens == { i \in 1..Len(t) :
                     Ch(t, i) = "{" /\ \E j \in (i + 1)..Len(t) : Closes(i, j) }
    IN  IF Opens = {} THEN [from |-> 0, to |-> 0]
        ELSE LET i == CHOOSE x \in Opens : \A y \in Opens : x <= y
             IN  [from |-> i, to |-> CHOOSE j \in (i + 1)..Len(t) : Closes(i, j)]

\* what a property read finds on Object.prototype when the object has no own key
ObjectPrototypeMethods ==
    {"constructor", "toString", "toLocaleString", "valueOf", "hasOwnProperty",
     "isPrototypeOf", "propertyIsEnumerable"}

NativeFunction(name) == [t |-> "function", name |-> name]

\* the prototype of state.variables: Object.prototype (shown as {}) until an
\* assignment to variables["__proto__"] replaced it; the key "__proto__" of
\* the function holds the replacement, as no own property can have that name
PrototypeOf(variables) ==
    IF "__proto__" \in DOMAIN variables THEN variables["__proto__"] ELSE Obj(<<>>)

\* state.variables[key]: the own property, else what the prototype chain holds
ReadVariable(variables, key) ==
    LET proto == PrototypeOf(variables)
    IN  IF proto.t = "null"
        THEN IF key # "__proto__" /\ key \in DOMAIN variables
             THEN variables[key] ELSE Undefined
        ELSE IF key = "__proto__" THEN proto
        ELSE IF key \in DOMAIN variables THEN variables[key]
        ELSE IF HasProp(proto, key) THEN GetProp(proto, key)
        ELSE IF proto.t = "array" /\ key = "length"
             THEN Num(Len(proto.items) * 10000)
        ELSE IF key \in ObjectPrototypeMethods
             THEN NativeFunction(IF key = "constructor" THEN "Object" ELSE key)
        ELSE Undefined

\* a resolver that looks the token up in the variables before the reserved names
ResolveTemplateTokenVariablesFirst(token, st) ==
    IF token = "" THEN ""
    ELSE LET normalized == ToLowerCase(token)
             exact == ReadVariable(st.variables, token)
             directValue == IF IsNullish(exact)
                            THEN ReadVariable(st.variables, normalized)
                            ELSE exact
         IN  IF IsString(directValue) THEN directValue.s
             ELSE IF IsObject(directValue) /\ ~IsNullish(directValue)
                  THEN JsonStringify(directValue)
             ELSE IF normalized = "input" THEN st.input
             ELSE IF normalized = "context" THEN st.context
             ELSE IF normalized = "intent" THEN st.intent
             ELSE IF normalized = "last_output" THEN st.lastOutput
             ELSE ""

ResolveTemplateToken(token, st) ==
    IF token = "" THEN ""
    ELSE LET normalized == ToLowerCase(token)
         IN  IF normalized = "input" THEN st.input
             ELSE IF normalized = "context" THEN st.context
             ELSE IF normalized = "intent" THEN st.intent
             ELSE IF normalized = "last_output" THEN st.lastOutput
             ELSE LET exact == ReadVariable(st.variables, token)
                      directValue == IF IsNullish(exact)
                                     THEN ReadVariable(st.variables, normalized)
                                     ELSE exact
                  IN  IF IsNullish(directValue) THEN ""
                      ELSE IF IsString(directValue) THEN directValue.s
                      ELSE IF IsObject(directValue) THEN JsonStringify(directValue)
                      ELSE IF directValue.t = "function"
                           THEN "function " \o directValue.name \o "() { [native code] }"
                      ELSE StringOf(directValue)

\* one pass of the replacement
RECURSIVE InterpolateOnce(_, _)
InterpolateOnce(template, st) ==
    LET m == FirstPlaceholder(template)
    IN  IF m.from = 0 THEN template
        ELSE SubSeq(template, 1, m.from - 1)
             \o ResolveTemplateToken(Trim(SubSeq(template, m.from + 1, m.to - 1)), st)
             \o InterpolateOnce(SubSeq(template, m.to + 1, Len(template)), st)

\* an interpolation that scans the text it produced a second time
InterpolatePromptTwice(template, st) ==
    InterpolateOnce(InterpolateOnce(template, st), st)

RECURSIVE InterpolatePrompt(_, _)
InterpolatePrompt(template, st) ==
    LET m == FirstPlaceholder(template)
    IN  IF m.from = 0 THEN template
        ELSE SubSeq(template, 1, m.from - 1)
             \o ResolveTemplateToken(Trim(SubSeq(template, m.from + 1, m.to - 1)), st)
             \o InterpolatePrompt(SubSeq(template, m.to + 1, Len(template)), st)

----------------------------------------------------------------------------
(* extractContentFromMessage                                               *)

RECURSIVE Join(_, _)
Join(strings, sep) ==
    IF strings = <<>> THEN ""
    ELSE IF Len(strings) = 1 THEN strings[1]
    ELSE strings[1] \o sep \o Join(Tail(strings), sep)

\* the text one block of an array content contributes
BlockText(block) ==
    IF IsString(block) THEN block.s
    ELSE IF Truthy(GetProp(block, "text")) /\ IsString(GetProp(block, "text"))
         THEN GetProp(block, "text").s
    ELSE IF IsString(GetProp(block, "content")) THEN GetProp(block, "content").s
    ELSE ""

ExtractContentFromMessage(response) ==
    IF ~Truthy(response) THEN ""
    ELSE IF IsString(response) THEN response.s
    ELSE LET content == GetProp(response, "content")
             text == GetProp(response, "text")
         IN  IF Truthy(content) /\ IsString(content) THEN content.s
             ELSE IF Truthy(content) /\ content.t = "array"
                  THEN Join(SelectSeq([i \in DOMAIN content.items |->
                                          BlockText(content.items[i])],
                                      LAMBDA b : b # ""),
                            "\n")
             ELSE IF Truthy(text) /\ IsString(text) THEN text.s
             ELSE JsonStringify(response)

----------------------------------------------------------------------------
(* tokenizeText                                                            *)

AlnumChars == "abcdefghijklmnopqrstuvwxyz0123456789"

IsAlnum(c) == \E i \in 1..Len(AlnumChars) : Ch(AlnumChars, i) = c

\* split(/[^a-z0-9]+/).filter(Boolean): cur is the token being read
RECURSIVE SplitTokens(_, _, _)
SplitTokens(s, cur, acc) ==
    IF Len(s) = 0 THEN (IF cur = "" THEN acc ELSE Append(acc, cur))
    ELSE LET c == Ch(s, 1)
             rest == SubSeq(s, 2, Len(s))
         IN  IF IsAlnum(c) THEN SplitTokens(rest, cur \o c, acc)
             ELSE SplitTokens(rest, "", IF cur = "" THEN acc ELSE Append(acc, cur))

TokenizeText(text) == IF text = "" THEN <<>> ELSE SplitTokens(ToLowerCase(text), "", <<>>)

----------------------------------------------------------------------------
(* ProductApiService                                                       *)

Product(id, name, price, stock, description) ==
    [id |-> id, name |-> name, price |-> price, stock |-> stock,
     description |-> description]

\* the catalogue; prices are held in ten-thousandths
Products ==
    << Product("p1", "Premium Brake Pads", 599900, "In Stock",
               "High performance ceramic brake pads."),
       Product("p2", "Standard Oil Filter", 129900, "In Stock",
               "Fits most sedans."),
       Product("p3", "Synthetic Motor Oil 5W-30", 299900, "Low Stock",
               "Full synthetic for better protection."),
       Product("p4", "Wiper Blades (Pair)", 249900, "Out of Stock",
               "All-season wiper blades.") >>

ProductMatches(normalizedQuery, p) ==
    \/ Includes(normalizedQuery, ToLowerCase(p.name))
    \/ Includes(normalizedQuery, ToLowerCase(p.description))
    \/ (Includes(normalizedQuery, "brake") /\ Includes(ToLowerCase(p.name), "brake"))
    \/ (Includes(normalizedQuery, "oil") /\ Includes(ToLowerCase(p.name), "oil"))

ProductValue(p) ==
    Obj(<< Prop("id", Str(p.id)), Prop("name", Str(p.name)),
           Prop("price", Num(p.price)), Prop("stock", Str(p.stock)),
           Prop("description", Str(p.description)) >>)

NoProductsMessage == "Product API: No matching products found for the query."

SearchProducts(query) ==
    LET normalizedQuery == ToLowerCase(query)
        matches == SelectSeq(Products, LAMBDA p : ProductMatches(normalizedQuery, p))
    IN  IF Len(matches) = 0 THEN Str(NoProductsMessage)
        ELSE Obj(<< Prop("source", Str("mock_product_api")),
                    Prop("products",
                         Arr([i \in DOMAIN matches |-> ProductValue(matches[i])])) >>)

\* LocationApiService.searchLocations: a structured result or a plain-text
\* "no match" string
SearchLocationsResults ==
    { Str("Location API: No matching locations found for the query."),
      Obj(<< Prop("source", Str("mock_location_api")),
             Prop("locations", Arr(<< Obj(<< Prop("id", Str("l1")) >>) >>)) >>) }

----------------------------------------------------------------------------
(* The knowledge index and the retrieval scorer                            *)

\* ln(n) in thousandths, for the token counts the index holds
LnMilli(n) ==
    CASE n = 1 -> 0     [] n = 2 -> 693   [] n = 3 -> 1099  [] n = 4 -> 1386
      [] n = 5 -> 1609  [] n = 6 -> 1792  [] n = 7 -> 1946  [] n = 8 -> 2079
      [] n = 9 -> 2197  [] n = 10 -> 2303 [] n = 11 -> 2398 [] n = 12 -> 2485
      [] n = 13 -> 2565 [] n = 14 -> 2639 [] n = 15 -> 2708 [] n = 16 -> 2773

\* an absent optional field of a knowledge entry
Has(rec, field) == field \in DOMAIN rec

\* new Set(...) then Array.from: the first occurrence of each token is kept
RECURSIVE Dedupe(_, _)
Dedupe(seq, acc) ==
    IF seq = <<>> THEN acc
    ELSE Dedupe(Tail(seq), IF Contains(acc, Head(seq)) THEN acc ELSE Append(acc, Head(seq)))

\* the fields tokenizeEntry and embedEntry put in the bucket, falsy ones dropped
EntryBucket(entry) ==
    SelectSeq(<<entry.title, IF Has(entry, "summary") THEN entry.summary ELSE "",
                entry.content>>
              \o (IF Has(entry, "tags") THEN entry.tags ELSE <<>>)
              \o (IF Has(entry, "keywords") THEN entry.keywords ELSE <<>>),
              LAMBDA x : x # "")

TokenizeEntry(entry) ==
    Dedupe(SplitTokens(ToLowerCase(Join(EntryBucket(entry), " ")), "", <<>>), <<>>)

\* a priority that prefers the weight to the priority
EntryPriorityWeightFirst(entry) ==
    IF Has(entry, "weight") THEN entry.weight
    ELSE IF Has(entry, "priority") THEN entry.priority
    ELSE 100

\* entry.priority ?? entry.weight ?? 1, in hundredths
EntryPriority(entry) ==
    IF Has(entry, "priority") THEN entry.priority
    ELSE IF Has(entry, "weight") THEN entry.weight
    ELSE 100

\* queryTokens.reduce(...): the query tokens found among the entry's tokens
RECURSIVE Overlap(_, _)
Overlap(queryTokens, tokens) ==
    IF queryTokens = <<>> THEN 0
    ELSE (IF Contains(tokens, Head(queryTokens)) THEN 1 ELSE 0)
         + Overlap(Tail(queryTokens), tokens)

\* a lexical score without the early return for an entry that shares no token
CalculateLexicalScoreNoEarlyReturn(queryTokens, entry) ==
    IF Len(entry.tokens) = 0 THEN 0
    ELSE LET overlap == Overlap(queryTokens, entry.tokens)
             priority == EntryPriority(entry)
             lengthPenalty == LnMilli(Len(entry.tokens) + 1) + 1000
             tagCount == IF Has(entry, "tags") THEN Len(entry.tags) ELSE 0
         IN  (((overlap * 10 + tagCount) * priority) * 10000) \div lengthPenalty

\* calculateLexicalScore, in ten-thousandths:
\* ((overlap + 0.1 * tags) * priority) / (ln(tokens + 1) + 1)
CalculateLexicalScore(queryTokens, entry) ==
    IF Len(entry.tokens) = 0 THEN 0
    ELSE LET overlap == Overlap(queryTokens, entry.tokens)
         IN  IF overlap = 0 /\ Len(queryTokens) # 0 THEN 0
             ELSE LET priority == EntryPriority(entry)
                      lengthPenalty == LnMilli(Len(entry.tokens) + 1) + 1000
                      tagCount == IF Has(entry, "tags") THEN Len(entry.tags) ELSE 0
                  IN  (((overlap * 10 + tagCount) * priority) * 10000)
                      \div lengthPenalty

\* floor of the square root, by bisection
RECURSIVE ISqrt(_, _, _)
ISqrt(n, lo, hi) ==
    IF lo >= hi THEN lo
    ELSE LET mid == (lo + hi + 1) \div 2
         IN  IF mid * mid <= n THEN ISqrt(n, mid, hi) ELSE ISqrt(n, lo, mid - 1)

RECURSIVE DotProduct(_, _)
DotProduct(a, b) ==
    IF a = <<>> THEN 0 ELSE Head(a) * Head(b) + DotProduct(Tail(a), Tail(b))

\* cosineSimilarity, in ten-thousandths, of vectors of small integers
CosineSimilarity(a, b) ==
    IF Len(a) = 0 \/ Len(b) = 0 \/ Len(a) # Len(b) THEN 0
    ELSE LET dot == DotProduct(a, b)
             normA == DotProduct(a, a)
             normB == DotProduct(b, b)
         IN  IF normA = 0 \/ normB = 0 THEN 0
             ELSE (dot * 10000) \div ISqrt(normA * normB, 0, 46340)

\* an embedding that may be undefined
NoEmbedding == [defined |-> FALSE, v |-> <<>>]
Embedding(v) == [defined |-> TRUE, v |-> v]

\* a score that blends whenever both embeddings exist, whatever their lengths
ScoreKnowledgeEntryAnyEmbedding(queryTokens, entry, queryEmbedding) ==
    LET lexicalScore == CalculateLexicalScore(queryTokens, entry)
    IN  IF queryEmbedding.defined /\ Has(entry, "embedding")
        THEN LET similarity == CosineSimilarity(queryEmbedding.v, entry.embedding)
                 priority == EntryPriority(entry)
             IN  ((similarity * priority) \div 100) + (lexicalScore \div 4)
        ELSE lexicalScore

\* scoreKnowledgeEntry, in ten-thousandths
ScoreKnowledgeEntry(queryTokens, entry, queryEmbedding) ==
    LET lexicalScore == CalculateLexicalScore(queryTokens, entry)
    IN  IF /\ queryEmbedding.defined
           /\ Has(entry, "embedding")
           /\ Len(entry.embedding) = Len(queryEmbedding.v)
        THEN LET similarity == CosineSimilarity(queryEmbedding.v, entry.embedding)
                 priority == EntryPriority(entry)
             IN  ((similarity * priority) \div 100) + (lexicalScore \div 4)
        ELSE lexicalScore

\* Array.prototype.slice(0, end)
Slice0(seq, end) ==
    LET stop == IF end < 0 THEN Len(seq) + end ELSE end
        last == IF stop > Len(seq) THEN Len(seq) ELSE stop
    IN  IF last <= 0 THEN <<>> ELSE SubSeq(seq, 1, last)

\* an insertion that puts x before the elements of its own score
RECURSIVE InsertByScoreBeforeEqual(_, _)
InsertByScoreBeforeEqual(sorted, x) ==
    IF sorted = <<>> THEN <<x>>
    ELSE IF Head(sorted).score > x.score
         THEN <<Head(sorted)>> \o InsertByScoreBeforeEqual(Tail(sorted), x)
         ELSE <<x>> \o sorted

\* insert x after every element whose score is not smaller: the sort is stable
RECURSIVE InsertByScore(_, _)
InsertByScore(sorted, x) ==
    IF sorted = <<>> THEN <<x>>
    ELSE IF Head(sorted).score >= x.score
         THEN <<Head(sorted)>> \o InsertByScore(Tail(sorted), x)
         ELSE <<x>> \o sorted

\* sort((a, b) => b.score - a.score)
RECURSIVE SortByScoreDesc(_, _)
SortByScoreDesc(seq, acc) ==
    IF seq = <<>> THEN acc
    ELSE SortByScoreDesc(Tail(seq), InsertByScore(acc, Head(seq)))

Min(a, b) == IF a < b THEN a ELSE b

\* a ranking without the fallback for a filter that keeps nothing
RankLocalNoFallback(knowledgeBase, queryTokens, queryEmbedding, topK) ==
    LET all == [i \in DOMAIN knowledgeBase |->
                   [entry |-> knowledgeBase[i],
                    score |-> ScoreKnowledgeEntry(queryTokens, knowledgeBase[i],
                                                  queryEmbedding)]]
        kept == SelectSeq(all, LAMBDA x : x.score > 0 \/ Len(queryTokens) = 0)
    IN  Slice0(SortByScoreDesc(kept, <<>>), topK)

\* the locally ranked entries: map, filter, sort, slice, and the fallback
RankLocal(knowledgeBase, queryTokens, queryEmbedding, topK) ==
    LET all == [i \in DOMAIN knowledgeBase |->
                   [entry |-> knowledgeBase[i],
                    score |-> ScoreKnowledgeEntry(queryTokens, knowledgeBase[i],
                                                  queryEmbedding)]]
        kept == SelectSeq(all, LAMBDA x : x.score > 0 \/ Len(queryTokens) = 0)
        scored == Slice0(SortByScoreDesc(kept, <<>>), topK)
    IN  IF Len(scored) = 0 /\ Len(knowledgeBase) # 0
        THEN Slice0([i \in DOMAIN knowledgeBase |->
                        [entry |-> knowledgeBase[i], score |-> 0]],
                    Min(topK, Len(knowledgeBase)))
        ELSE scored

OptStr(rec, field) == IF Has(rec, field) THEN Str(rec[field]) ELSE Undefined

OptStrs(rec, field) ==
    IF Has(rec, field)
    THEN Arr([i \in DOMAIN rec[field] |-> Str(rec[field][i])])
    ELSE Undefined

\* `Snippet ${index + 1} - ${title}\nSummary: ${summary ?? 'n/a'}\n${content}`
Snippet(index, title, summary, content) ==
    "Snippet " \o NatToString(index) \o " - " \o title \o "\nSummary: "
    \o summary \o "\n" \o content

NoKnowledgeMessage == "No relevant knowledge found in the configured knowledge base."

\* what runRetrieverNode returns from the local ranking
LocalRetrieverOutput(source, scored) ==
    LET context ==
            IF Len(scored) > 0
            THEN Join([i \in DOMAIN scored |->
                          Snippet(i, scored[i].entry.title,
                                  IF Has(scored[i].entry, "summary")
                                  THEN scored[i].entry.summary ELSE "n/a",
                                  scored[i].entry.content)],
                      "\n\n")
            ELSE NoKnowledgeMessage
    IN  Obj(<< Prop("source", Str(source)),
               Prop("matches",
                    Arr([i \in DOMAIN scored |->
                            Obj(<< Prop("rank", Num(i * 10000)),
                                   Prop("id", OptStr(scored[i].entry, "id")),
                                   Prop("title", Str(scored[i].entry.title)),
                                   Prop("content", Str(scored[i].entry.content)),
                                   Prop("summary", OptStr(scored[i].entry, "summary")),
                                   Prop("tags", OptStrs(scored[i].entry, "tags")),
                                   Prop("keywords", OptStrs(scored[i].entry, "keywords")),
                                   Prop("score", Num(scored[i].score)) >>)])),
               Prop("context", Str(context)) >>)

\* what runRetrieverNode returns from the vector store's rows
VectorRetrieverOutput(source, vectorResults) ==
    LET Meta(r, field) == IF Has(r, "metadata") THEN OptStr(r.metadata, field)
                          ELSE Undefined
        context ==
            Join([i \in DOMAIN vectorResults |->
                     Snippet(i, vectorResults[i].title,
                             IF /\ Has(vectorResults[i], "metadata")
                                /\ Has(vectorResults[i].metadata, "summary")
                             THEN vectorResults[i].metadata.summary ELSE "n/a",
                             vectorResults[i].content)],
                 "\n\n")
    IN  Obj(<< Prop("source", Str(source)),
               Prop("matches",
                    Arr([i \in DOMAIN vectorResults |->
                            Obj(<< Prop("rank", Num(i * 10000)),
                                   Prop("id", Str(vectorResults[i].id)),
                                   Prop("title", Str(vectorResults[i].title)),
                                   Prop("content", Str(vectorResults[i].content)),
                                   Prop("summary", Meta(vectorResults[i], "summary")),
                                   Prop("tags",
                                        IF Has(vectorResults[i], "metadata")
                                        THEN OptStrs(vectorResults[i].metadata, "tags")
                                        ELSE Undefined),
                                   Prop("keywords",
                                        IF Has(vectorResults[i], "metadata")
                                        THEN OptStrs(vectorResults[i].metadata, "keywords")
                                        ELSE Undefined),
                                   Prop("score", Num(vectorResults[i].score)) >>)])),
               Prop("context", Str(context)) >>)

----------------------------------------------------------------------------
(* executePipeline: the state a node's output leaves                       *)

Node(id, type, config) == [id |-> id, type |-> type, config |-> config]

NoConfig == <<>>

\* node.config?.[key] is set
HasCfg(node, key) == key \in DOMAIN node.config

\* pipeline.nodes.find(n => n.id === nodeId): its index, 0 when there is none
FindNode(p, nodeId) == IndexOf(NodeIds(p), nodeId)

\* obj[key] = v
\* obj[key] = v on an object literal: "__proto__" is the accessor of
\* Object.prototype, which replaces the prototype by an object or null and
\* ignores any other value; every other key becomes an own property
SetKey(obj, key, v) ==
    IF key = "__proto__"
    THEN IF IsObject(v) THEN ("__proto__" :> v) @@ obj ELSE obj
    ELSE (key :> v) @@ obj

InitialState(input) ==
    [input |-> input, context |-> "", intent |-> "", lastOutput |-> "",
     variables |-> <<>>]

\* typeof output === 'string' ? output : JSON.stringify(output) : String(output)
StringForm(output) ==
    IF IsString(output) THEN output.s
    ELSE IF IsObject(output) THEN JsonStringify(output)
    ELSE StringOf(output)

\* an llm branch that writes its output into the context whatever it holds
AfterLlmOverwrites(node, output, st) ==
    LET st1 == IF Includes(ToLowerCase(node.id), "intent") /\ IsString(output)
               THEN [st EXCEPT !.intent = Trim(output.s)]
               ELSE st
    IN  [st1 EXCEPT !.context = IF IsString(output) THEN output.s
                                ELSE JsonStringify(output)]

\* an llm branch that looks for "intent" in the id as written
AfterLlmCaseSensitive(node, output, st) ==
    LET st1 == IF Includes(node.id, "intent") /\ IsString(output)
               THEN [st EXCEPT !.intent = Trim(output.s)]
               ELSE st
    IN  IF st1.context = ""
        THEN [st1 EXCEPT !.context = IF IsString(output) THEN output.s
                                     ELSE JsonStringify(output)]
        ELSE st1

\* the llm branch: intent by the naming convention, context seeded when empty
AfterLlm(node, output, st) ==
    LET st1 == IF Includes(ToLowerCase(node.id), "intent") /\ IsString(output)
               THEN [st EXCEPT !.intent = Trim(output.s)]
               ELSE st
    IN  IF st1.context = ""
        THEN [st1 EXCEPT !.context = IF IsString(output) THEN output.s
                                     ELSE JsonStringify(output)]
        ELSE st1

\* a retriever branch that, like the llm branch, only seeds an empty context
AfterRetrieverSeedsOnly(node, output, st) ==
    IF IsObject(output) /\ Truthy(GetProp(output, "context")) /\ st.context = ""
    THEN [st EXCEPT !.context = GetProp(output, "context").s]
    ELSE st

\* the retriever branch: a truthy output.context replaces the context
AfterRetriever(node, output, st) ==
    IF IsObject(output) /\ Truthy(GetProp(output, "context"))
    THEN [st EXCEPT !.context = GetProp(output, "context").s]
    ELSE st

ToolBlock(node, output) ==
    "Tool Output (" \o node.id \o "): "
    \o (IF IsString(output) THEN output.s ELSE JsonStringify(output))

\* a tool branch that puts its block in place of the context
AfterToolReplaces(node, output, st) ==
    IF IsString(output) \/ (IsObject(output) /\ output.t # "null")
    THEN [st EXCEPT !.context = ToolBlock(node, output)]
    ELSE st

\* the tool branch: the block is appended to the context
AfterTool(node, output, st) ==
    IF IsString(output) \/ (IsObject(output) /\ output.t # "null")
    THEN [st EXCEPT !.context = IF st.context # ""
                                 THEN st.context \o "\n\n" \o ToolBlock(node, output)
                                 ELSE ToolBlock(node, output)]
    ELSE st

\* lastOutput and the two variables every node type sets
AfterNode(node, output, st) ==
    [st EXCEPT !.lastOutput = StringForm(output),
               !.variables = SetKey(SetKey(st.variables, node.id, output),
                                    ToLowerCase(node.id), output)]

\* PipelineState after the loop body ran for node with this output
ApplyNodeOutput(node, output, st) ==
    AfterNode(node, output,
              CASE node.type = "llm" -> AfterLlm(node, output, st)
                [] node.type = "retriever" -> AfterRetriever(node, output, st)
                [] node.type = "tool" -> AfterTool(node, output, st)
                [] OTHER -> st)

\* the record steps.push(...) adds
StepRecord(node, output) ==
    [nodeId |-> node.id, type |-> node.type, output |-> output,
     metadata |-> [model |-> IF HasCfg(node, "model")
                             THEN Str(node.config.model) ELSE Undefined,
                   temperature |-> IF HasCfg(node, "temperature")
                                   THEN Num(node.config.temperature) ELSE Undefined]]

\* what executePipeline returns
PipelineResult(st, trace) ==
    [kind |-> "return", finalOutput |-> st.lastOutput, intent |-> st.intent,
     context |-> st.context, steps |-> trace]

\* an exception leaving executePipeline
Thrown(error, message) == [kind |-> "throw", error |-> error, message |-> message]

NoResult == [kind |-> "none"]

----------------------------------------------------------------------------
(* The inputs of a run                                                     *)

UserInputs == {"Need Oil", "{context}?"}

\* what llm.invoke resolves to
LlmResponses ==
    { Str("  billing \n"),
      Obj(<< Prop("content", Str("see {input}")) >>),
      Obj(<< Prop("content", Arr(<< Obj(<< Prop("text", Str("brake")) >>),
                                     Str("pads") >>)) >>),
      Str("") }

\* what embedQuery resolves to
QueryEmbeddings == { <<1, 0>> }

\* the rows semanticSearch returns: none (disabled, failed or no hit), or hits
SemanticSearchResults ==
    { <<>>,
      << [id |-> "kb-oil", title |-> "Oil change", content |-> "Every 5000 miles.",
          metadata |-> [summary |-> "Service interval"], score |-> 8700] >>,
      << [id |-> "Refunds", title |-> "Refunds", content |-> "Refunds need a receipt.",
          metadata |-> [summary |-> "Billing"], score |-> 3100],
         [id |-> "kb-tires", title |-> "Tire rotation", content |-> "Rotate.",
          score |-> -1200] >> }

IndexedEntry(entry) == [tokens |-> TokenizeEntry(entry)] @@ entry

\* this.knowledgeBaseIndex: entries whose embedding calls failed at load
KnowledgeBaseIndex ==
    [faq |-> << IndexedEntry([id |-> "kb-oil", title |-> "Oil change",
                              content |-> "Change the oil every 5000 miles.",
                              tags |-> <<"service">>, priority |-> 200]),
                IndexedEntry([title |-> "Refunds", summary |-> "Billing",
                              content |-> "Refunds need a receipt."]) >>,
     empty |-> << >>]

DefaultTopK == 3

NodePool ==
    { Node("Intent", "llm", NoConfig),
      Node("Answer", "llm",
           [prompt |-> "{input} as {Intent} {missing}\n{context}\n{ last_output }|{KB}",
            model |-> "gemini-pro", temperature |-> 2000]),
      Node("kb", "retriever", [source |-> "faq", top_k |-> 2]),
      Node("kb2", "retriever", [topK |-> 2]),
      Node("kb3", "retriever", [source |-> "empty"]),
      Node("kb4", "retriever", [source |-> "missing"]),
      Node("intent_shop", "tool", [toolName |-> "mock_product_api"]),
      Node("where", "tool", [toolName |-> "mock_location_api"]),
      Node("t3", "tool", [toolName |-> "x"]),
      Node("t4", "tool", NoConfig),
      Node("hook", "webhook", NoConfig),
      Node("__proto__", "llm", NoConfig) }

Edge(from, to) == [from |-> from, to |-> to]

\* the edge lists a run's pipeline is tried with: none declared, an empty list,
\* every node depending on its successor, an edge to an undeclared id, a cycle
RunEdgeChoices(ids) ==
    LET n == Len(ids)
    IN  { [hasEdges |-> FALSE, edges |-> <<>>],
          [hasEdges |-> TRUE, edges |-> [i \in 1..(n - 1) |-> Edge(ids[i + 1], ids[i])]],
          [hasEdges |-> TRUE, edges |-> <<Edge(ids[1], "ghost")>>],
          [hasEdges |-> TRUE, edges |-> <<Edge(ids[1], ids[n]), Edge(ids[n], ids[1])>>] }

Pipeline(nodes, e) ==
    [name |-> "p", nodes |-> nodes, hasEdges |-> e.hasEdges, edges |-> e.edges]

RunNodeLists ==
    { ns \in UNION { [1..k -> NodePool] : k \in 1..MaxRunNodes } :
        Distinct([i \in DOMAIN ns |-> ns[i].id]) }

----------------------------------------------------------------------------
(* executePipeline: one run                                                *)

\* the node the loop is at (the loop has not ended and the id is declared)
AtNode == idx <= Len(orderedNodeIds) /\ FindNode(pipeline, orderedNodeIds[idx]) # 0

CurrentNode == pipeline.nodes[FindNode(pipeline, orderedNodeIds[idx])]

Call(node, kind, arg) ==
    [nodeId |-> node.id, kind |-> kind, arg |-> arg,
     stepsAtCall |-> Len(steps), stateAtCall |-> state]

\* the loop body after the node's output is known: lines 343-385
Complete(node, output) ==
    /\ state' = ApplyNodeOutput(node, output, state)
    /\ steps' = Append(steps, StepRecord(node, output))
    /\ idx' = idx + 1
    /\ inflight' = inflight \ {node.id}
    /\ locals' = <<>>
    /\ pc' = "loop"

\* an exception propagates out of executePipeline: nothing is returned
Throw(error, message) ==
    /\ result' = Thrown(error, message)
    /\ inflight' = {}
    /\ locals' = <<>>
    /\ pc' = "thrown"
    /\ UNCHANGED <<state, steps, idx>>

\* an executePipeline that looks over the configuration of every node before
\* it runs the first one
ExecutePipelineValidating ==
    /\ pc = "idle"
    /\ IF \E i \in DOMAIN pipeline.nodes :
             \/ pipeline.nodes[i].type = "tool" /\ ~HasCfg(pipeline.nodes[i], "toolName")
             \/ pipeline.nodes[i].type = "retriever"
                   /\ ~HasCfg(pipeline.nodes[i], "source")
       THEN /\ Throw("BadRequestException", "Pipeline \"" \o pipeline.name
                                            \o "\" has an invalid node.")
            /\ UNCHANGED <<orderedNodeIds, warnings>>
       ELSE /\ state' = InitialState(userInput)
            /\ orderedNodeIds' = BuildExecutionOrder(pipeline)
            /\ warnings' = warnings \o BuildExecutionOrderWarnings(pipeline)
            /\ steps' = <<>>
            /\ idx' = 1
            /\ pc' = "loop"
            /\ UNCHANGED <<inflight, locals, result>>
    /\ UNCHANGED <<pipeline, userInput, calls>>

\* executePipeline is called: the state is created and the order computed
ExecutePipeline ==
    /\ pc = "idle"
    /\ state' = InitialState(userInput)
    /\ orderedNodeIds' = BuildExecutionOrder(pipeline)
    /\ warnings' = warnings \o BuildExecutionOrderWarnings(pipeline)
    /\ steps' = <<>>
    /\ idx' = 1
    /\ pc' = "loop"
    /\ UNCHANGED <<pipeline, userInput, inflight, locals, calls, result>>

\* a loop that rejects an id of the order that no node has
SkipMissingNodeAborts ==
    /\ pc = "loop"
    /\ idx <= Len(orderedNodeIds)
    /\ FindNode(pipeline, orderedNodeIds[idx]) = 0
    /\ Throw("BadRequestException", "Node \"" \o orderedNodeIds[idx] \o "\" not found.")
    /\ UNCHANGED <<pipeline, userInput, orderedNodeIds, warnings, calls>>

\* an id of the order that no node has: warn and continue
SkipMissingNode ==
    /\ pc = "loop"
    /\ idx <= Len(orderedNodeIds)
    /\ FindNode(pipeline, orderedNodeIds[idx]) = 0
    /\ warnings' = Append(warnings, "Node \"" \o orderedNodeIds[idx]
                                     \o "\" was referenced in pipeline edges but not found in nodes array.")
    /\ idx' = idx + 1
    /\ UNCHANGED <<pipeline, userInput, pc, orderedNodeIds, state, steps, inflight,
                   locals, calls, result>>

\* a loop that invokes the model and moves on without awaiting the response
StartLlmNodeNoAwait ==
    /\ pc = "loop" /\ AtNode /\ CurrentNode.type = "llm"
    /\ LET node == CurrentNode
           promptTemplate == IF HasCfg(node, "prompt") THEN node.config.prompt
                             ELSE "{input}"
           prompt == InterpolatePrompt(promptTemplate, state)
       IN  /\ calls' = Append(calls, Call(node, "llm", prompt))
           /\ inflight' = inflight \cup {node.id}
    /\ idx' = idx + 1
    /\ UNCHANGED <<pipeline, userInput, pc, orderedNodeIds, warnings, state, steps,
                   locals, result>>

\* runLlmNode up to its await: the prompt is interpolated and the model invoked
StartLlmNode ==
    /\ pc = "loop" /\ AtNode /\ CurrentNode.type = "llm"
    /\ LET node == CurrentNode
           promptTemplate == IF HasCfg(node, "prompt") THEN node.config.prompt
                             ELSE "{input}"
           prompt == InterpolatePrompt(promptTemplate, state)
       IN  /\ calls' = Append(calls, Call(node, "llm", prompt))
           /\ inflight' = inflight \cup {node.id}
           /\ locals' = [prompt |-> prompt]
    /\ pc' = "llm"
    /\ UNCHANGED <<pipeline, userInput, orderedNodeIds, warnings, idx, state, steps,
                   result>>

\* llm.invoke resolves: the content is extracted and trimmed
LlmResolve ==
    /\ pc = "llm"
    /\ \E response \in LlmResponses :
          Complete(CurrentNode, Str(Trim(ExtractContentFromMessage(response))))
    /\ UNCHANGED <<pipeline, userInput, orderedNodeIds, warnings, calls, result>>

\* llm.invoke rejects: the error leaves the run
LlmReject ==
    /\ pc = "llm"
    /\ Throw("Error", "model invocation failed")
    /\ UNCHANGED <<pipeline, userInput, orderedNodeIds, warnings, calls>>

\* [state.input, state.intent].filter(Boolean).join(sep)
QueryText(st, sep) ==
    Join(SelectSeq(<<st.input, st.intent>>, LAMBDA x : x # ""), sep)

\* typeof config.top_k === 'number' ? config.top_k : config.topK ?? 3
TopK(node) ==
    IF HasCfg(node, "top_k") THEN node.config.top_k
    ELSE IF HasCfg(node, "topK") THEN node.config.topK
    ELSE DefaultTopK

\* the entries this.knowledgeBaseIndex holds for the source as its own property
KnowledgeBaseOf(source) ==
    IF source \in DOMAIN KnowledgeBaseIndex THEN KnowledgeBaseIndex[source] ELSE <<>>

\* the length of a method of Object.prototype: its number of parameters
NativeFunctionLength(name) ==
    IF name \in {"constructor", "hasOwnProperty", "isPrototypeOf", "propertyIsEnumerable"}
    THEN 1 ELSE 0

\* this.knowledgeBaseIndex[source]?.length, 0 when it is undefined: the index is
\* an object literal, so a source it does not own is read from Object.prototype
KnowledgeBaseLength(source) ==
    IF source \in DOMAIN KnowledgeBaseIndex THEN Len(KnowledgeBaseIndex[source])
    ELSE IF source \in ObjectPrototypeMethods THEN NativeFunctionLength(source)
    ELSE 0

\* the local ranking of the source's entries completes the node; what the index
\* inherited for the source is a function, which has no map method
CompleteLocally(node, source, queryTokens, queryEmbedding, topK) ==
    IF source \in DOMAIN KnowledgeBaseIndex
    THEN /\ Complete(node, LocalRetrieverOutput(source,
                               RankLocal(KnowledgeBaseOf(source), queryTokens,
                                         queryEmbedding, topK)))
         /\ UNCHANGED result
    ELSE Throw("TypeError", "knowledgeBase.map is not a function")

\* a retriever that looks its source up in the index before it checks that the
\* source is configured
StartRetrieverNodeIndexFirst ==
    /\ pc = "loop" /\ AtNode /\ CurrentNode.type = "retriever"
    /\ LET node == CurrentNode
           source == IF HasCfg(node, "source") THEN node.config.source ELSE ""
           queryTokens == TokenizeText(ToLowerCase(QueryText(state, " ")))
           query == QueryText(state, "\n")
       IN  IF KnowledgeBaseLength(source) = 0
           THEN /\ Throw("NotFoundException",
                         "Knowledge source \"" \o source
                         \o "\" is not configured or empty.")
                /\ UNCHANGED <<calls, warnings>>
           ELSE IF Trim(query) = ""
           THEN /\ CompleteLocally(node, source, queryTokens, NoEmbedding, TopK(node))
                /\ UNCHANGED <<calls, warnings>>
           ELSE /\ calls' = Append(calls, Call(node, "embedding", query))
                /\ inflight' = inflight \cup {node.id}
                /\ locals' = [source |-> source, topK |-> TopK(node),
                              queryTokens |-> queryTokens,
                              queryEmbedding |-> NoEmbedding]
                /\ pc' = "embed"
                /\ UNCHANGED <<state, steps, idx, warnings, result>>
    /\ UNCHANGED <<pipeline, userInput, orderedNodeIds>>

\* runRetrieverNode up to its first await: the configuration is checked, then the
\* query is embedded (embedText makes no call for a blank query)
StartRetrieverNode ==
    /\ pc = "loop" /\ AtNode /\ CurrentNode.type = "retriever"
    /\ LET node == CurrentNode
           source == IF HasCfg(node, "source") THEN node.config.source ELSE ""
           queryTokens == TokenizeText(ToLowerCase(QueryText(state, " ")))
           query == QueryText(state, "\n")
       IN  IF source = ""
           THEN /\ Throw("BadRequestException",
                         "Retriever node \"" \o node.id
                         \o "\" is missing a source configuration.")
                /\ UNCHANGED <<calls, warnings>>
           ELSE IF KnowledgeBaseLength(source) = 0
           THEN /\ Throw("NotFoundException",
                         "Knowledge source \"" \o source
                         \o "\" is not configured or empty.")
                /\ UNCHANGED <<calls, warnings>>
           ELSE IF Trim(query) = ""
           THEN /\ CompleteLocally(node, source, queryTokens, NoEmbedding, TopK(node))
                /\ UNCHANGED <<calls, warnings>>
           ELSE /\ calls' = Append(calls, Call(node, "embedding", query))
                /\ inflight' = inflight \cup {node.id}
                /\ locals' = [source |-> source, topK |-> TopK(node),
                              queryTokens |-> queryTokens,
                              queryEmbedding |-> NoEmbedding]
                /\ pc' = "embed"
                /\ UNCHANGED <<state, steps, idx, warnings, result>>
    /\ UNCHANGED <<pipeline, userInput, orderedNodeIds>>

\* embedQuery resolves: the vector store is searched with the embedding
EmbedResolve ==
    /\ pc = "embed"
    /\ \E v \in QueryEmbeddings :
          /\ locals' = [locals EXCEPT !.queryEmbedding = Embedding(v)]
          /\ calls' = Append(calls, Call(CurrentNode, "vector", locals.source))
    /\ pc' = "vector"
    /\ UNCHANGED <<pipeline, userInput, orderedNodeIds, warnings, idx, state, steps,
                   inflight, result>>

\* embedQuery rejects: embedText warns and returns undefined, the vector store is
\* not searched and the entries are ranked locally
EmbedReject ==
    /\ pc = "embed"
    /\ warnings' = Append(warnings, "Vectorization failed for retriever-query")
    /\ CompleteLocally(CurrentNode, locals.source, locals.queryTokens, NoEmbedding,
                       locals.topK)
    /\ UNCHANGED <<pipeline, userInput, orderedNodeIds, calls>>

\* a retriever that ranks locally whatever semanticSearch returned
VectorSettleAlwaysLocal ==
    /\ pc = "vector"
    /\ \E vectorResults \in SemanticSearchResults :
          /\ Len(vectorResults) <= locals.topK
          /\ calls' = [i \in DOMAIN calls |->
                          IF i = Len(calls) THEN [rows |-> vectorResults] @@ calls[i]
                          ELSE calls[i]]
          /\ CompleteLocally(CurrentNode, locals.source, locals.queryTokens,
                             locals.queryEmbedding, locals.topK)
    /\ UNCHANGED <<pipeline, userInput, orderedNodeIds, warnings>>

\* semanticSearch returns: its rows are used as they are, and no row means the
\* local ranking; the call log keeps the rows the call returned
VectorSettle ==
    /\ pc = "vector"
    /\ \E vectorResults \in SemanticSearchResults :
          /\ Len(vectorResults) <= locals.topK
          /\ calls' = [i \in DOMAIN calls |->
                          IF i = Len(calls) THEN [rows |-> vectorResults] @@ calls[i]
                          ELSE calls[i]]
          /\ IF Len(vectorResults) > 0
             THEN /\ Complete(CurrentNode,
                              VectorRetrieverOutput(locals.source, vectorResults))
                  /\ UNCHANGED result
             ELSE CompleteLocally(CurrentNode, locals.source, locals.queryTokens,
                                  locals.queryEmbedding, locals.topK)
    /\ UNCHANGED <<pipeline, userInput, orderedNodeIds, warnings>>

RegisteredTools == {"mock_product_api", "mock_location_api"}

\* what the tool returns for the query
ToolResults(toolName, query) ==
    IF toolName = "mock_product_api" THEN {SearchProducts(query)}
    ELSE SearchLocationsResults

\* a tool node that answers an unregistered tool name with an empty result
StartToolNodeSoftDegrade ==
    /\ pc = "loop" /\ AtNode /\ CurrentNode.type = "tool"
    /\ LET node == CurrentNode
           toolName == IF HasCfg(node, "toolName") THEN node.config.toolName ELSE ""
           query == ToLowerCase(state.input \o " " \o state.intent)
       IN  IF toolName = ""
           THEN /\ Throw("BadRequestException",
                         "Tool node \"" \o node.id \o "\" is missing 'toolName' config.")
                /\ UNCHANGED calls
           ELSE IF toolName \in RegisteredTools
           THEN /\ calls' = Append(calls, Call(node, "tool", query))
                /\ inflight' = inflight \cup {node.id}
                /\ locals' = [toolName |-> toolName, query |-> query]
                /\ pc' = "tool"
                /\ UNCHANGED <<state, steps, idx, result>>
           ELSE /\ Complete(node, Arr(<<>>))
                /\ UNCHANGED <<calls, result>>
    /\ UNCHANGED <<pipeline, userInput, orderedNodeIds, warnings>>

\* runToolNode up to the tool's call
StartToolNode ==
    /\ pc = "loop" /\ AtNode /\ CurrentNode.type = "tool"
    /\ LET node == CurrentNode
           toolName == IF HasCfg(node, "toolName") THEN node.config.toolName ELSE ""
           query == ToLowerCase(state.input \o " " \o state.intent)
       IN  IF toolName = ""
           THEN /\ Throw("BadRequestException",
                         "Tool node \"" \o node.id \o "\" is missing 'toolName' config.")
                /\ UNCHANGED calls
           ELSE IF toolName \in RegisteredTools
           THEN /\ calls' = Append(calls, Call(node, "tool", query))
                /\ inflight' = inflight \cup {node.id}
                /\ locals' = [toolName |-> toolName, query |-> query]
                /\ pc' = "tool"
                /\ UNCHANGED <<state, steps, idx, result>>
           ELSE /\ Throw("BadRequestException",
                         "Unknown tool name \"" \o toolName
                         \o "\" requested by node \"" \o node.id \o "\".")
                /\ UNCHANGED calls
    /\ UNCHANGED <<pipeline, userInput, orderedNodeIds, warnings>>

\* the tool returns
ToolSettle ==
    /\ pc = "tool"
    /\ \E output \in ToolResults(locals.toolName, locals.query) :
          Complete(CurrentNode, output)
    /\ UNCHANGED <<pipeline, userInput, orderedNodeIds, warnings, calls, result>>

NodeTypes == {"llm", "retriever", "tool"}

\* a loop that passes over a node of an unsupported type
UnsupportedNodeTypeSkipped ==
    /\ pc = "loop" /\ AtNode /\ CurrentNode.type \notin NodeTypes
    /\ idx' = idx + 1
    /\ UNCHANGED <<pipeline, userInput, pc, orderedNodeIds, warnings, state, steps,
                   inflight, locals, calls, result>>

\* the else branch of the dispatch
UnsupportedNodeType ==
    /\ pc = "loop" /\ AtNode /\ CurrentNode.type \notin NodeTypes
    /\ Throw("BadRequestException",
             "Unsupported pipeline node type \"" \o CurrentNode.type \o "\".")
    /\ UNCHANGED <<pipeline, userInput, orderedNodeIds, warnings, calls>>

\* the loop ended: the result is returned
Finish ==
    /\ pc = "loop"
    /\ idx > Len(orderedNodeIds)
    /\ result' = PipelineResult(state, steps)
    /\ pc' = "returned"
    /\ UNCHANGED <<pipeline, userInput, orderedNodeIds, warnings, idx, state, steps,
                   inflight, locals, calls>>

NoState == <<>>

Init ==
    /\ \E ns \in RunNodeLists :
          \E e \in RunEdgeChoices([i \in DOMAIN ns |-> ns[i].id]) :
             pipeline = Pipeline(ns, e)
    /\ userInput \in UserInputs
    /\ pc = "idle"
    /\ orderedNodeIds = <<>>
    /\ warnings = <<>>
    /\ idx = 0
    /\ state = NoState
    /\ steps = <<>>
    /\ inflight = {}
    /\ locals = <<>>
    /\ calls = <<>>
    /\ result = NoResult

Next ==
    \/ ExecutePipeline
    \/ SkipMissingNode
    \/ StartLlmNode
    \/ LlmResolve
    \/ LlmReject
    \/ StartRetrieverNode
    \/ EmbedResolve
    \/ EmbedReject
    \/ VectorSettle
    \/ StartToolNode
    \/ ToolSettle
    \/ UnsupportedNodeType
    \/ Finish

Spec == Init /\ [][Next]_vars

----------------------------------------------------------------------------
(* The scheduler alone, over every small graph                             *)

OrderNodeIds == {"A", "B", "C", ""}

UndeclaredId == "X"

OrderNodeLists ==
    { ids \in SeqsUpTo(OrderNodeIds, MaxNodes) : Distinct(ids) }

\* any edges among the declared ids and one undeclared id, or none declared
OrderEdgeChoices(ids) ==
    LET ends == Range(ids) \cup {UndeclaredId}
    IN  { [hasEdges |-> FALSE, edges |-> <<>>] }
        \cup { [hasEdges |-> TRUE, edges |-> es] :
                 es \in SeqsUpTo({ Edge(a, b) : a \in ends, b \in ends }, MaxEdges) }

InitOrder ==
    /\ \E ids \in OrderNodeLists :
          \E e \in OrderEdgeChoices(ids) :
             pipeline = Pipeline([i \in DOMAIN ids |-> Node(ids[i], "llm", NoConfig)], e)
    /\ userInput = ""
    /\ pc = "idle"
    /\ orderedNodeIds = <<>>
    /\ warnings = <<>>
    /\ idx = 0
    /\ state = NoState
    /\ steps = <<>>
    /\ inflight = {}
    /\ locals = <<>>
    /\ calls = <<>>
    /\ result = NoResult

\* buildExecutionOrder(pipeline) is called
Schedule ==
    /\ pc = "idle"
    /\ orderedNodeIds' = BuildExecutionOrder(pipeline)
    /\ warnings' = warnings \o BuildExecutionOrderWarnings(pipeline)
    /\ pc' = "scheduled"
    /\ UNCHANGED <<pipeline, userInput, idx, state, steps, inflight, locals, calls,
                   result>>

NextOrder == Schedule

SpecOrder == InitOrder /\ [][NextOrder]_vars

----------------------------------------------------------------------------
(* Properties of the scheduler (checked under SpecOrder)                   *)

Declared == Range(NodeIds(pipeline))

Scheduled == pc = "scheduled"

EdgesDeclared == EdgesLength(pipeline) > 0

\* every edge joins two declared nodes
EdgesAmongDeclared ==
    \A i \in DOMAIN pipeline.edges :
        pipeline.edges[i].from \in Declared /\ pipeline.edges[i].to \in Declared

EdgeSet == { <<pipeline.edges[i].from, pipeline.edges[i].to>> : i \in DOMAIN pipeline.edges }

\* the declared nodes reached from the set S along at most n edges
RECURSIVE ReachedWithin(_, _)
ReachedWithin(S, n) ==
    IF n = 0 THEN S
    ELSE ReachedWithin(S \cup { e[2] : e \in { d \in EdgeSet : d[1] \in S /\ d[2] \in Declared } },
                       n - 1)

\* b is reached from a along at least one edge
Path(a, b) ==
    b \in ReachedWithin({ e[2] : e \in { d \in EdgeSet : d[1] = a /\ d[2] \in Declared } },
                        Cardinality(Declared))

HasCycle == \E a \in Declared : Path(a, a)

EveryDeclaredNodeOnce == \A id \in Declared : Occurrences(orderedNodeIds, id) = 1

\* the declared nodes without an incoming edge, as declared
ZeroIndegreeNodes ==
    SelectSeq(NodeIds(pipeline), LAMBDA id : \A e \in EdgeSet : e[2] # id)

\* the nodes the queue loop cannot emit: those on a cycle, the empty id (which
\* the loop passes over), and everything that depends on one of them
Stuck ==
    LET blocked == { a \in Declared : a = "" \/ Path(a, a) }
    IN  ReachedWithin(blocked, Cardinality(Declared))

\* C1: for unique node ids and any edges (cycles, self-loops, duplicates, edges
\* naming undeclared ids), the order holds every declared node id exactly once.
C1_EveryDeclaredNodeOnce == Scheduled => EveryDeclaredNodeOnce

\* C2: when the edges form a DAG over the declared nodes, every node appears
\* exactly once and the source of every edge comes before its target.
C2_DagTopologicalOrder ==
    (Scheduled /\ EdgesAmongDeclared /\ ~HasCycle) =>
        /\ EveryDeclaredNodeOnce
        /\ \A e \in EdgeSet :
              IndexOf(orderedNodeIds, e[1]) < IndexOf(orderedNodeIds, e[2])

\* C3: with edges among declared nodes, the nodes the queue loop does not emit
\* (a cycle, or what depends on one) follow the emitted nodes in declaration
\* order, a warning is logged, and every node appears exactly once; the cycle
\* A->B->A gives both nodes as declared.
C3_CycleFallback ==
    (Scheduled /\ EdgesDeclared /\ EdgesAmongDeclared) =>
        LET stuck == Stuck
            StuckAsDeclared == SelectSeq(NodeIds(pipeline), LAMBDA id : id \in stuck)
            n == Len(orderedNodeIds)
            k == Len(StuckAsDeclared)
        IN  /\ EveryDeclaredNodeOnce
            /\ n = Len(pipeline.nodes)
            /\ (HasCycle => k > 0)
            /\ SubSeq(orderedNodeIds, n - k + 1, n) = StuckAsDeclared
            /\ \A e \in EdgeSet :
                  (e[1] \notin stuck /\ e[2] \notin stuck) =>
                      IndexOf(orderedNodeIds, e[1]) < IndexOf(orderedNodeIds, e[2])
            /\ (k > 0 <=> Contains(warnings, CyclicWarning))
            /\ (/\ Len(pipeline.nodes) = 2
                /\ pipeline.edges = << Edge(pipeline.nodes[1].id, pipeline.nodes[2].id),
                                       Edge(pipeline.nodes[2].id, pipeline.nodes[1].id) >>)
               => orderedNodeIds = NodeIds(pipeline)

\* a cycle among three declared nodes was scheduled, with a node outside it
C3_Witness ==
    /\ Scheduled /\ EdgesAmongDeclared /\ HasCycle
    /\ NodeIds(pipeline) = <<"B", "A", "C">>
    /\ pipeline.edges = <<Edge("A", "B"), Edge("B", "A")>>
    /\ orderedNodeIds = <<"C", "B", "A">>
    /\ warnings = <<CyclicWarning>>

\* C4: with edges declared, the order begins with the declared nodes of
\* indegree 0 in declaration order; nodes declared [C, A, B] with edges A->B,
\* B->C give [A, B, C].
C4_ZeroIndegreeFirst ==
    (Scheduled /\ EdgesDeclared) =>
        /\ Len(orderedNodeIds) >= Len(ZeroIndegreeNodes)
        /\ SubSeq(orderedNodeIds, 1, Len(ZeroIndegreeNodes)) = ZeroIndegreeNodes
        /\ (/\ NodeIds(pipeline) = <<"C", "A", "B">>
            /\ pipeline.edges = <<Edge("A", "B"), Edge("B", "C")>>)
           => orderedNodeIds = <<"A", "B", "C">>

\* C5: with no edges declared (absent, or an empty list) the order is the
\* declaration order of the nodes.
C5_NoEdgesDeclarationOrder ==
    (Scheduled /\ ~EdgesDeclared) =>
        /\ Len(orderedNodeIds) = Len(pipeline.nodes)
        /\ \A i \in DOMAIN pipeline.nodes : orderedNodeIds[i] = pipeline.nodes[i].id

\* three nodes were scheduled with an empty edge list
C5_Witness ==
    /\ Scheduled
    /\ pipeline.hasEdges /\ pipeline.edges = <<>>
    /\ orderedNodeIds = <<"C", "", "A">>

----------------------------------------------------------------------------
(* Properties of a run (checked under Spec)                                *)

Started == pc # "idle"

Awaiting == pc \in {"llm", "embed", "vector", "tool"}

IsDeclared(id) == FindNode(pipeline, id) # 0

NodeById(id) == pipeline.nodes[FindNode(pipeline, id)]

\* the ids of the order that a declared node has
DeclaredInOrder == SelectSeq(orderedNodeIds, IsDeclared)

\* how many of the first n ids of the order a declared node has
DeclaredAmongFirst(n) == Len(SelectSeq(SubSeq(orderedNodeIds, 1, n), IsDeclared))

StepIds(trace) == [i \in DOMAIN trace |-> trace[i].nodeId]

\* a node the run cannot execute: an unsupported type, a retriever without a
\* source or with a source that is not indexed or is empty, a tool without a
\* registered toolName
InvalidNode(node) ==
    \/ node.type \notin {"llm", "retriever", "tool"}
    \/ /\ node.type = "retriever"
       /\ \/ ~HasCfg(node, "source")
          \/ node.config.source \notin DOMAIN KnowledgeBaseIndex
          \/ KnowledgeBaseIndex[node.config.source] = <<>>
    \/ /\ node.type = "tool"
       /\ \/ ~HasCfg(node, "toolName")
          \/ node.config.toolName \notin {"mock_product_api", "mock_location_api"}

CallsOf(id, kind) == { i \in DOMAIN calls : calls[i].nodeId = id /\ calls[i].kind = kind }

\* C6: a run returns the trace of every executed node, or aborts with one
\* error: after a node fails no later node is executed, the failing node is not
\* retried, and neither a result nor a partial trace is returned.
C6_CompleteOrAbort ==
    /\ pc \notin {"returned", "thrown"} => result = NoResult
    /\ pc = "returned" =>
          /\ result.kind = "return"
          /\ result.steps = steps
          /\ StepIds(steps) = DeclaredInOrder
          /\ \A i \in DOMAIN calls : Contains(StepIds(steps), calls[i].nodeId)
    /\ pc = "thrown" =>
          /\ result.kind = "throw"
          /\ DOMAIN result = {"kind", "error", "message"}
          /\ idx \in DOMAIN orderedNodeIds
          /\ ~Contains(StepIds(steps), orderedNodeIds[idx])
          /\ \A i \in DOMAIN calls : IndexOf(orderedNodeIds, calls[i].nodeId) <= idx
          /\ \A kind \in {"llm", "embedding", "vector", "tool"} :
                Cardinality(CallsOf(orderedNodeIds[idx], kind)) <= 1
          /\ inflight = {}
          /\ ~ENABLED Next
    \* an invalid node starts no call and completes no step, and nothing runs after it
    /\ \A k \in DOMAIN orderedNodeIds :
          (IsDeclared(orderedNodeIds[k]) /\ InvalidNode(NodeById(orderedNodeIds[k]))) =>
              /\ Started => idx <= k
              /\ pc # "returned"
              /\ \A i \in DOMAIN calls : IndexOf(orderedNodeIds, calls[i].nodeId) < k
              /\ \A i \in DOMAIN steps : IndexOf(orderedNodeIds, steps[i].nodeId) < k
    \* a node whose model call failed is the last thing the run did
    /\ (pc = "thrown" /\ result.error = "Error") =>
          /\ NodeById(orderedNodeIds[idx]).type = "llm"
          /\ calls[Len(calls)].nodeId = orderedNodeIds[idx]

\* a run aborted at its second node, after the first node's step was recorded
C6_Witness ==
    /\ pc = "thrown"
    /\ Len(steps) = 1
    /\ idx = 2
    /\ result.error = "Error"

\* PipelineState after the steps of a trace, from the state st
RECURSIVE ReplaySteps(_, _)
ReplaySteps(trace, st) ==
    IF trace = <<>> THEN st
    ELSE ReplaySteps(Tail(trace),
                     ApplyNodeOutput(NodeById(Head(trace).nodeId), Head(trace).output, st))

\* C7: the nodes of a run execute one after another in scheduler order: a call
\* starts only after every earlier node's output is in PipelineState and its
\* step recorded, and no two nodes are in flight together.
C7_OneNodeAtATime ==
    /\ Cardinality(inflight) <= 1
    /\ inflight # {} => (Awaiting /\ inflight = {orderedNodeIds[idx]})
    /\ Awaiting => inflight = {orderedNodeIds[idx]}
    /\ \A i \in DOMAIN calls :
          LET c == calls[i]
              pos == IndexOf(orderedNodeIds, c.nodeId)
          IN  /\ pos > 0
              /\ c.stepsAtCall = DeclaredAmongFirst(pos - 1)
              /\ i > 1 => IndexOf(orderedNodeIds, calls[i - 1].nodeId) <= pos
    \* the latest call saw the state all recorded steps before it produce (an
    \* earlier call was the latest one when it started)
    /\ calls # <<>> =>
          calls[Len(calls)].stateAtCall =
              ReplaySteps(SubSeq(steps, 1, calls[Len(calls)].stepsAtCall),
                          InitialState(userInput))
    /\ Started => StepIds(steps) = SubSeq(DeclaredInOrder, 1, Len(steps))

\* the second node's call is in flight after the first node completed
C7_Witness ==
    /\ pc = "llm"
    /\ Len(steps) = 1
    /\ Len(calls) >= 2
    /\ calls[Len(calls)].stateAtCall.lastOutput = StringForm(steps[1].output)
    /\ steps[1].output.t = "object"

\* the "not found in nodes array" warnings logged so far
MissingNodeWarnings ==
    Len(SelectSeq(warnings, LAMBDA w : Includes(w, "was referenced in pipeline edges")))

\* C8: a completed run's trace has exactly one record per id of the order that
\* a declared node has, in that order, whatever the node type; an id without a
\* node adds no step and does not abort the run.
C8_OneStepPerDeclaredNode ==
    /\ pc = "returned" =>
          /\ StepIds(result.steps) = DeclaredInOrder
          /\ \A i \in DOMAIN result.steps :
                /\ result.steps[i].type = NodeById(result.steps[i].nodeId).type
                /\ result.steps[i].type \in {"llm", "retriever", "tool"}
          /\ MissingNodeWarnings = Len(orderedNodeIds) - Len(DeclaredInOrder)
    /\ pc = "thrown" => IsDeclared(orderedNodeIds[idx])
    /\ Started => \A i \in DOMAIN steps : IsDeclared(steps[i].nodeId)

\* a run over a retriever, an undeclared id and a tool returned two steps
C8_Witness ==
    /\ pc = "returned"
    /\ \E i \in DOMAIN orderedNodeIds : ~IsDeclared(orderedNodeIds[i])
    /\ Len(result.steps) = 2
    /\ result.steps[1].type # result.steps[2].type
    /\ result.steps[1].type # "llm" /\ result.steps[2].type # "llm"

\* the node's output in string form
OutputText(output) ==
    IF output.t = "string" THEN output.s ELSE JsonStringify(output)

\* the state holds the output of the step: lastOutput and both variables
HoldsOutput(st, step) ==
    /\ st.lastOutput = OutputText(step.output)
    /\ ReadVariable(st.variables, step.nodeId) = step.output
    /\ ReadVariable(st.variables, ToLowerCase(step.nodeId)) = step.output

\* C9: a run starts from {input: userInput, context: "", intent: "",
\* lastOutput: "", variables: {}}; after each node, lastOutput is the node's
\* output in string form and variables[nodeId], variables[lowercase(nodeId)]
\* are its raw output, before the next node starts.
C9_StateAfterEachNode ==
    Started =>
        /\ steps = <<>> =>
              /\ state.input = userInput /\ state.context = "" /\ state.intent = ""
              /\ state.lastOutput = "" /\ DOMAIN state.variables = {}
        /\ steps # <<>> => HoldsOutput(state, steps[Len(steps)])
        /\ state.input = userInput
        /\ \A i \in DOMAIN calls :
              IF calls[i].stepsAtCall = 0
              THEN /\ calls[i].stateAtCall.lastOutput = ""
                   /\ DOMAIN calls[i].stateAtCall.variables = {}
              ELSE HoldsOutput(calls[i].stateAtCall, steps[calls[i].stepsAtCall])

\* a node with a mixed-case id returned an object and the next node started
C9_Witness ==
    /\ Len(steps) = 1
    /\ steps[1].nodeId # ToLowerCase(steps[1].nodeId)
    /\ Len(calls) = 2 /\ calls[2].stepsAtCall = 1
    /\ calls[2].stateAtCall.lastOutput # ""

IntentNamed(id) ==
    LET lower == ToLowerCase(id)
    IN  \E i \in 1..(Len(id) - 5) : SubSeq(lower, i, i + 5) = "intent"

\* the output of the last llm step whose id names an intent, "" without one
RECURSIVE ExpectedIntent(_)
ExpectedIntent(trace) ==
    IF trace = <<>> THEN ""
    ELSE LET last == trace[Len(trace)]
         IN  IF last.type = "llm" /\ IntentNamed(last.nodeId)
             THEN Trim(last.output.s)
             ELSE ExpectedIntent(SubSeq(trace, 1, Len(trace) - 1))

----------------------------------------------------------------------------
(* Context writes of the three node types (checked under Spec)             *)

\* this step of the run recorded a node's step
StepAdded == Len(steps') = Len(steps) + 1

\* the state the latest call was started in
StateAtLatestCall == calls[Len(calls)].stateAtCall

ToolOutputBlock(step) == "Tool Output (" \o step.nodeId \o "): " \o OutputText(step.output)

----------------------------------------------------------------------------
(* interpolatePrompt over the states a run goes through: SpecInterp        *)

MaxInterpSteps == 2

\* the nodes whose outputs fill state.variables
InterpNodes ==
    { Node("Kb", "tool", [toolName |-> "mock_product_api"]),
      Node("Intent", "llm", NoConfig),
      Node("input", "llm", NoConfig),
      Node("__proto__", "llm", NoConfig) }

\* what such a node returns: the trimmed text of an llm, a tool's result
InterpOutputs(node) ==
    IF node.type = "llm" THEN { Str("billing"), Str("") }
    ELSE { SearchProducts("need oil"), SearchProducts("hello") }

\* the text between the braces of the placeholder
InterpTokens ==
    { "input", "INPUT", " Context ", "intent", "Last_Output", "last_output",
      "kb", "KB", "Kb", "kB", "missing", "", " ", "constructor", "toString",
      "__proto__", "__PROTO__", "a\nb" }

InterpPrefixes == { "", "Q: " }

InterpSuffixes == { "", "." }

InitInterp ==
    /\ pipeline = Pipeline(<<>>, [hasEdges |-> FALSE, edges |-> <<>>])
    /\ userInput \in UserInputs
    /\ pc = "idle"
    /\ orderedNodeIds = <<>>
    /\ warnings = <<>>
    /\ idx = 0
    /\ state = InitialState(userInput)
    /\ steps = <<>>
    /\ inflight = {}
    /\ locals = <<>>
    /\ calls = <<>>
    /\ result = NoResult

\* a node of the run completed: the loop body wrote its output into the state
NodeCompleted ==
    /\ pc = "idle"
    /\ Len(steps) < MaxInterpSteps
    /\ \E node \in InterpNodes :
          /\ \A i \in DOMAIN steps : steps[i].nodeId # node.id
          /\ \E output \in InterpOutputs(node) :
                /\ state' = ApplyNodeOutput(node, output, state)
                /\ steps' = Append(steps, StepRecord(node, output))
    /\ UNCHANGED <<pipeline, userInput, pc, orderedNodeIds, warnings, idx, inflight,
                   locals, calls, result>>

\* interpolatePrompt(template, state) for a template with one placeholder
Interpolate ==
    /\ pc = "idle"
    /\ \E pre \in InterpPrefixes, raw \in InterpTokens, post \in InterpSuffixes :
          locals' = [pre |-> pre, raw |-> raw, post |-> post,
                     prompt |-> InterpolatePrompt(pre \o "{" \o raw \o "}" \o post, state)]
    /\ pc' = "interpolated"
    /\ UNCHANGED <<pipeline, userInput, orderedNodeIds, warnings, idx, state, steps,
                   inflight, calls, result>>

NextInterp == NodeCompleted \/ Interpolate

SpecInterp == InitInterp /\ [][NextInterp]_vars

\* the placeholder's token, as the resolver receives it
TokenAsked == Trim(locals.raw)

\* the placeholder is one the pattern matches: no line terminator in it
Placeholder == pc = "interpolated" /\ \A i \in 1..Len(locals.raw) : ~IsLineTerminator(Ch(locals.raw, i))

ReservedNames == {"input", "context", "intent", "last_output"}

ReservedToken == ToLowerCase(TokenAsked) \in ReservedNames

\* the keys the completed nodes set in state.variables
KeysSet == UNION { {steps[i].nodeId, ToLowerCase(steps[i].nodeId)} : i \in DOMAIN steps }

\* C14: interpolatePrompt returns a string for every template and state, and
\* a placeholder whose token is neither reserved nor a key set in
\* state.variables (nor is its lowercased form) is replaced by "".
C14_UnknownTokenEmpty ==
    (/\ Placeholder
     /\ ~ReservedToken
     /\ TokenAsked \notin KeysSet
     /\ ToLowerCase(TokenAsked) \notin KeysSet) =>
        locals.prompt = locals.pre \o locals.post

\* the state field a reserved name stands for
ReservedValue(name) ==
    CASE name = "input" -> state.input
      [] name = "context" -> state.context
      [] name = "intent" -> state.intent
      [] name = "last_output" -> state.lastOutput

\* C15: input, context, intent and last_output, in any letter case, resolve to
\* state.input, state.context, state.intent and state.lastOutput as they are
\* when the prompt is built, also when state.variables has a key of that name.
C15_ReservedTokens ==
    (Placeholder /\ ReservedToken) =>
        locals.prompt = locals.pre \o ReservedValue(ToLowerCase(TokenAsked)) \o locals.post

\* {INPUT} gave the user's input although a node named "input" had stored
\* another text in state.variables
C15_Witness ==
    /\ Placeholder
    /\ locals.raw = "INPUT"
    /\ \E i \in DOMAIN steps : steps[i].nodeId = "input" /\ steps[i].output = Str("billing")
    /\ "input" \in DOMAIN state.variables
    /\ locals.prompt = locals.pre \o userInput \o locals.post

\* C16: a token that is not reserved and equals the id N of an executed node
\* up to letter case resolves to the output stored for N: a string as it is,
\* an object as its JSON text.
C16_VariableTokenAnyCase ==
    (Placeholder /\ ~ReservedToken) =>
        \A i \in DOMAIN steps :
            ToLowerCase(steps[i].nodeId) = ToLowerCase(TokenAsked) =>
                locals.prompt = locals.pre \o OutputText(steps[i].output) \o locals.post

----------------------------------------------------------------------------
(* The local ranking of runRetrieverNode over small knowledge bases:       *)
(* SpecRank                                                                *)

MaxEntries == 4

\* enrichEntry: the entry with its tokens and the embedding embedEntry returned
EmbeddedEntry(entry, v) == [embedding |-> v] @@ IndexedEntry(entry)

\* indexed entries: with and without tags, priority, weight and embedding, two
\* of them of equal score for every query
RankEntries ==
    { IndexedEntry([id |-> "kb-oil", title |-> "Oil change", content |-> "Change the oil",
                    tags |-> <<"service">>, priority |-> 200]),
      IndexedEntry([title |-> "Refunds", summary |-> "Billing",
                    content |-> "Refunds need a receipt"]),
      EmbeddedEntry([title |-> "Oil", content |-> "filter"], <<1, 0>>),
      EmbeddedEntry([title |-> "Oil", content |-> "pump"], <<1, 0>>),
      EmbeddedEntry([title |-> "Tires", content |-> "rotate"], <<3, 4>>),
      EmbeddedEntry([title |-> "Brakes", content |-> "pads", weight |-> 50], <<0, 1>>) }

RankKnowledgeBases == { kb \in SeqsUpTo(RankEntries, MaxEntries) : kb # <<>> /\ Distinct(kb) }

\* what the user typed; "???" yields no token
RankInputs == { "oil", "Oil refunds", "zebra", "???" }

\* the retriever node's configuration of topK
RankNodes ==
    { Node("kb", "retriever", [source |-> "faq"]),
      Node("kb", "retriever", [source |-> "faq", top_k |-> 2]),
      Node("kb", "retriever", [source |-> "faq", topK |-> 2]),
      Node("kb", "retriever", [source |-> "faq", top_k |-> 0, topK |-> 2]) }

\* the query embedding: undefined (no model, or embedQuery failed) or a vector
RankQueryEmbeddings == { NoEmbedding } \cup { Embedding(v) : v \in QueryEmbeddings }

InitRank ==
    /\ pipeline = Pipeline(<<>>, [hasEdges |-> FALSE, edges |-> <<>>])
    /\ userInput \in RankInputs
    /\ pc = "idle"
    /\ orderedNodeIds = <<>>
    /\ warnings = <<>>
    /\ idx = 0
    /\ state = InitialState(userInput)
    /\ steps = <<>>
    /\ inflight = {}
    /\ \E knowledgeBase \in RankKnowledgeBases, node \in RankNodes,
          queryEmbedding \in RankQueryEmbeddings :
          locals = [knowledgeBase |-> knowledgeBase, node |-> node,
                    queryEmbedding |-> queryEmbedding]
    /\ calls = <<>>
    /\ result = NoResult

\* runRetrieverNode from topK on, the vector store having returned no row
RankKnowledgeBase ==
    /\ pc = "idle"
    /\ LET knowledgeBase == locals.knowledgeBase
           topK == TopK(locals.node)
           queryTokens == TokenizeText(ToLowerCase(QueryText(state, " ")))
           scored == RankLocal(knowledgeBase, queryTokens, locals.queryEmbedding, topK)
       IN  result' = [kind |-> "ranked", topK |-> topK, queryTokens |-> queryTokens,
                      scores |-> [i \in DOMAIN knowledgeBase |->
                                     ScoreKnowledgeEntry(queryTokens, knowledgeBase[i],
                                                         locals.queryEmbedding)],
                      scored |-> scored,
                      output |-> LocalRetrieverOutput(locals.node.config.source, scored)]
    /\ pc' = "ranked"
    /\ UNCHANGED <<pipeline, userInput, orderedNodeIds, warnings, idx, state, steps,
                   inflight, locals, calls>>

NextRank == RankKnowledgeBase

SpecRank == InitRank /\ [][NextRank]_vars

----------------------------------------------------------------------------
(* Properties of the local ranking (checked under SpecRank)                *)

Ranked == pc = "ranked"

\* the entry shares no token with the query
ZeroOverlap(entry) == \A i \in DOMAIN result.queryTokens :
                          ~Contains(entry.tokens, result.queryTokens[i])

\* the blended score applies to the entry: a query embedding and an entry
\* embedding of the same length
Blended(entry) ==
    /\ locals.queryEmbedding.defined
    /\ Has(entry, "embedding")
    /\ Len(entry.embedding) = Len(locals.queryEmbedding.v)

\* the list is the no-match fallback: the first entries as declared, score 0
IsFallback ==
    /\ Len(result.scored) <= Len(locals.knowledgeBase)
    /\ \A i \in DOMAIN result.scored :
          result.scored[i] = [entry |-> locals.knowledgeBase[i], score |-> 0]

RankedEntries == { result.scored[i].entry : i \in DOMAIN result.scored }

FirstWithScoreZero(n) ==
    [i \in 1..n |-> [entry |-> locals.knowledgeBase[i], score |-> 0]]

\* C18: when the query yields no tokens the ranking is all entries, each with
\* score 0, in their original order, cut to topK.
C18_EmptyQueryKeepsAll ==
    (Ranked /\ result.queryTokens = <<>>) =>
        result.scored = FirstWithScoreZero(Min(result.topK, Len(locals.knowledgeBase)))

AllZeroOverlap == \A i \in DOMAIN locals.knowledgeBase : ZeroOverlap(locals.knowledgeBase[i])

PositionOf(entry) == IndexOf(locals.knowledgeBase, entry)

Matches == GetProp(result.output, "matches").items

----------------------------------------------------------------------------
(* The retrieval scorer on its own: scoreKnowledgeEntry applied to a pair  *)
(* of indexed entries, a query token list and an optional query embedding  *)

\* title, content and tags of an entry; the first two have the same token
\* set and different tag counts
ScoreEntryTexts ==
    { [title |-> "Oil", content |-> "filter"],
      [title |-> "Oil filter", content |-> "Filter oil", tags |-> <<"oil">>],
      [title |-> "Refunds", content |-> "receipt", tags |-> <<"billing">>] }

\* priority and weight of an entry, in hundredths; none, one or both
ScoreEntryPriorities ==
    { <<>>, [priority |-> 200], [weight |-> 50], [priority |-> 100, weight |-> 300] }

\* what embedEntry left in the entry: undefined, or the provider's vector
ScoreEntryEmbeddings == { NoEmbedding, Embedding(<<1, 0>>), Embedding(<<-1, 0>>),
                          Embedding(<<1, 0, 0>>) }

ScoreEntry(text, priority, embedding) ==
    IF embedding.defined
    THEN EmbeddedEntry(priority @@ text, embedding.v)
    ELSE IndexedEntry(priority @@ text)

ScoreQueryTokens == { <<>>, <<"oil">>, <<"oil", "filter">>, <<"zebra">> }

ScoreQueryEmbeddings == { NoEmbedding, Embedding(<<1, 0>>), Embedding(<<0, 1>>) }

InitScore ==
    /\ pipeline = Pipeline(<<>>, [hasEdges |-> FALSE, edges |-> <<>>])
    /\ userInput = ""
    /\ pc = "idle"
    /\ orderedNodeIds = <<>>
    /\ warnings = <<>>
    /\ idx = 0
    /\ state = NoState
    /\ steps = <<>>
    /\ inflight = {}
    /\ \E text \in ScoreEntryTexts, otherText \in ScoreEntryTexts,
          priority \in ScoreEntryPriorities, otherPriority \in ScoreEntryPriorities,
          embedding \in ScoreEntryEmbeddings,
          queryTokens \in ScoreQueryTokens, queryEmbedding \in ScoreQueryEmbeddings :
          locals = [entry |-> ScoreEntry(text, priority, embedding),
                    other |-> ScoreEntry(otherText, otherPriority, embedding),
                    queryTokens |-> queryTokens,
                    queryEmbedding |-> queryEmbedding]
    /\ calls = <<>>
    /\ result = NoResult

\* scoreKnowledgeEntry(queryTokens, entry, queryEmbedding), for both entries
ScoreEntries ==
    /\ pc = "idle"
    /\ result' = [kind |-> "scored",
                  score |-> ScoreKnowledgeEntry(locals.queryTokens, locals.entry,
                                                locals.queryEmbedding),
                  otherScore |-> ScoreKnowledgeEntry(locals.queryTokens, locals.other,
                                                     locals.queryEmbedding),
                  lexicalScore |-> CalculateLexicalScore(locals.queryTokens, locals.entry),
                  otherLexicalScore |-> CalculateLexicalScore(locals.queryTokens,
                                                              locals.other)]
    /\ pc' = "scored"
    /\ UNCHANGED <<pipeline, userInput, orderedNodeIds, warnings, idx, state, steps,
                   inflight, locals, calls>>

NextScore == ScoreEntries

SpecScore == InitScore /\ [][NextScore]_vars

----------------------------------------------------------------------------
(* Properties of the scorer (checked under SpecScore)                      *)

Scored == pc = "scored"

\* the priority the scorer is to use: entry.priority, else entry.weight, else 1
ClaimedPriority(entry) ==
    IF "priority" \in DOMAIN entry THEN entry.priority
    ELSE IF "weight" \in DOMAIN entry THEN entry.weight
    ELSE 100

TagCount(entry) == IF "tags" \in DOMAIN entry THEN Len(entry.tags) ELSE 0

\* identical token sets and tag counts, and the first priority is the smaller
SameTokensSmallerPriority ==
    /\ Range(locals.entry.tokens) = Range(locals.other.tokens)
    /\ TagCount(locals.entry) = TagCount(locals.other)
    /\ ClaimedPriority(locals.entry) < ClaimedPriority(locals.other)

\* C21 as stated: for any query, of two entries with identical token sets and
\* tag counts the one of greater priority has the strictly greater score.
C21_PriorityOrdersScores ==
    (Scored /\ SameTokensSmallerPriority) => result.otherScore > result.score

\* the query tokens found among the pair's tokens, repeated tokens counted
SharedTokens ==
    Cardinality({ i \in DOMAIN locals.queryTokens :
                     locals.queryTokens[i] \in Range(locals.entry.tokens) })

\* C21 amended: the lexical score of the entry of greater priority is strictly
\* greater when the entries have tokens and the query shares a token with
\* them, or the query has no token and the entries have a tag.
C21_PriorityOrdersLexicalScores ==
    (/\ Scored /\ SameTokensSmallerPriority
     /\ locals.entry.tokens # <<>>
     /\ \/ SharedTokens >= 1
        \/ locals.queryTokens = <<>> /\ TagCount(locals.entry) >= 1) =>
        result.otherLexicalScore > result.lexicalScore

\* an entry of weight 3 and priority 1 scored below the same text of
\* priority 2 for a query that shares two tokens with them
C21_Witness ==
    /\ Scored /\ SameTokensSmallerPriority
    /\ SharedTokens = 2
    /\ "weight" \in DOMAIN locals.entry /\ "priority" \in DOMAIN locals.entry
    /\ ClaimedPriority(locals.other) = 200
    /\ result.lexicalScore > 0
    /\ result.otherLexicalScore > result.lexicalScore

\* C22: the score of an entry is never negative, for every query token list,
\* indexed entry and optional query embedding.
C22_ScoreNonNegative ==
    Scored => result.score >= 0 /\ result.otherScore >= 0

\* both embeddings are there and have the same number of dimensions
Commensurate(entry) ==
    /\ locals.queryEmbedding.defined
    /\ "embedding" \in DOMAIN entry
    /\ Len(entry.embedding) = Len(locals.queryEmbedding.v)

\* similarity x priority + 0.25 x lexical score, in ten-thousandths
BlendedScore(entry, lexicalScore) ==
    (CosineSimilarity(locals.queryEmbedding.v, entry.embedding) * ClaimedPriority(entry))
        \div 100
    + lexicalScore \div 4

\* C23: the score is the blended score exactly when a query embedding is
\* available and the entry has an embedding of its dimensionality, and the
\* lexical score alone otherwise; the priority is entry.priority, else
\* entry.weight, else 1.
C23_BlendedWhenCommensurate ==
    Scored =>
        /\ result.score = IF Commensurate(locals.entry)
                          THEN BlendedScore(locals.entry, result.lexicalScore)
                          ELSE result.lexicalScore
        /\ result.otherScore = IF Commensurate(locals.other)
                               THEN BlendedScore(locals.other, result.otherLexicalScore)
                               ELSE result.otherLexicalScore

\* an entry with a three-dimensional embedding was scored lexically against a
\* two-dimensional query embedding
C23_Witness ==
    /\ Scored
    /\ locals.queryEmbedding.defined /\ locals.queryTokens = <<"oil", "filter">>
    /\ "embedding" \in DOMAIN locals.entry
    /\ Len(locals.entry.embedding) = 3
    /\ "priority" \in DOMAIN locals.entry /\ "weight" \in DOMAIN locals.entry
    /\ result.score = result.lexicalScore /\ result.score > 0

----------------------------------------------------------------------------
(* The retriever's sources of matches (checked under Spec)                  *)

\* the call of the kind that the node made, 0 when it made none
CallOf(id, kind) ==
    IF CallsOf(id, kind) = {} THEN 0 ELSE CHOOSE i \in CallsOf(id, kind) : TRUE

\* the rows the vector store returned to the node, none when it was not asked
RowsReturnedTo(id) ==
    IF CallOf(id, "vector") = 0 THEN <<>> ELSE calls[CallOf(id, "vector")].rows

StepMatches(step) == GetProp(step.output, "matches").items

\* the match is the adapter's row at that rank
IsRow(match, row, rank) ==
    /\ GetProp(match, "rank") = Num(rank * 10000)
    /\ GetProp(match, "id") = Str(row.id)
    /\ GetProp(match, "title") = Str(row.title)
    /\ GetProp(match, "content") = Str(row.content)
    /\ GetProp(match, "score") = Num(row.score)

\* the output is the local ranking of the node's source for the query of the
\* state the node started in
IsLocalRanking(step, queryEmbedding) ==
    LET node == NodeById(step.nodeId)
        st == calls[CallOf(step.nodeId, "embedding")].stateAtCall
        queryTokens == TokenizeText(ToLowerCase(QueryText(st, " ")))
    IN  step.output =
            LocalRetrieverOutput(node.config.source,
                RankLocal(KnowledgeBaseOf(node.config.source), queryTokens,
                          queryEmbedding, TopK(node)))

\* C24: when the vector store returns at least one hit the matches are those
\* hits, in its order, with its scores and rank = position, not scored or
\* filtered locally; when it returns none, or there is no query embedding,
\* the output is the local ranking of the in-memory index.
C24_VectorStorePrecedence ==
    \A i \in DOMAIN steps :
        steps[i].type = "retriever" =>
            LET rows == RowsReturnedTo(steps[i].nodeId)
            IN  /\ CallOf(steps[i].nodeId, "embedding") # 0
                /\ IF rows # <<>>
                   THEN /\ Len(StepMatches(steps[i])) = Len(rows)
                        /\ \A k \in DOMAIN rows : IsRow(StepMatches(steps[i])[k], rows[k], k)
                   ELSE IF CallOf(steps[i].nodeId, "vector") = 0
                   THEN IsLocalRanking(steps[i], NoEmbedding)
                   ELSE \E v \in QueryEmbeddings : IsLocalRanking(steps[i], Embedding(v))

\* the vector store returned two rows, the second one of an entry the index
\* does not hold and with a negative score, and both are the node's matches
C24_Witness ==
    /\ steps # <<>>
    /\ steps[Len(steps)].type = "retriever"
    /\ Len(RowsReturnedTo(steps[Len(steps)].nodeId)) = 2
    /\ Len(StepMatches(steps[Len(steps)])) = 2
    /\ GetProp(StepMatches(steps[Len(steps)])[2], "id") = Str("kb-tires")
    /\ GetProp(StepMatches(steps[Len(steps)])[2], "score").scaled < 0

\* a retriever node whose config has no source
WithoutSource(node) == node.type = "retriever" /\ "source" \notin DOMAIN node.config

\* C30: a retriever node without a source aborts the run with a bad-request
\* error naming the node's id; the node starts no embedding call and no
\* vector search, and the error is not the index's "not configured or empty".
C30_MissingSourceAborts ==
    \A k \in DOMAIN orderedNodeIds :
        (IsDeclared(orderedNodeIds[k]) /\ WithoutSource(NodeById(orderedNodeIds[k]))) =>
            /\ Started => idx <= k
            /\ (Started /\ idx = k) => pc \in {"loop", "thrown"}
            /\ (pc = "thrown" /\ idx = k) =>
                  /\ result.error = "BadRequestException"
                  /\ Includes(result.message, "\"" \o orderedNodeIds[k] \o "\"")
                  /\ Includes(result.message, "missing a source")
            /\ CallsOf(orderedNodeIds[k], "embedding") = {}
            /\ CallsOf(orderedNodeIds[k], "vector") = {}
            /\ \A i \in DOMAIN steps : steps[i].nodeId # orderedNodeIds[k]

\* a run aborted at a retriever without a source after an llm node had run
C30_Witness ==
    /\ pc = "thrown" /\ Len(steps) = 1 /\ idx = 2
    /\ steps[1].type = "llm"
    /\ WithoutSource(NodeById(orderedNodeIds[2]))
    /\ result.error = "BadRequestException"

\* the tool name a tool node asks for, "" when its config has none
ToolNameOf(node) == IF "toolName" \in DOMAIN node.config THEN node.config.toolName ELSE ""

\* a tool node the service has no tool for
WithoutTool(node) ==
    node.type = "tool" /\ ToolNameOf(node) \notin {"mock_product_api", "mock_location_api"}

\* C31: a tool node whose toolName is not registered aborts the run with a
\* bad-request error naming that tool name, and one without a toolName with a
\* bad-request error naming the node; the node calls no tool and records no
\* step, so it is never turned into an empty result.
C31_UnknownToolAborts ==
    \A k \in DOMAIN orderedNodeIds :
        (IsDeclared(orderedNodeIds[k]) /\ WithoutTool(NodeById(orderedNodeIds[k]))) =>
            LET node == NodeById(orderedNodeIds[k])
            IN  /\ Started => idx <= k
                /\ (Started /\ idx = k) => pc \in {"loop", "thrown"}
                /\ pc # "returned"
                /\ (pc = "thrown" /\ idx = k) =>
                      /\ result.error = "BadRequestException"
                      /\ IF ToolNameOf(node) = ""
                         THEN /\ Includes(result.message, "Tool node \"" \o node.id \o "\"")
                              /\ Includes(result.message, "missing 'toolName'")
                         ELSE Includes(result.message,
                                       "Unknown tool name \"" \o ToolNameOf(node) \o "\"")
                /\ CallsOf(node.id, "tool") = {}
                /\ \A i \in DOMAIN steps : steps[i].nodeId # node.id

\* a run aborted at a tool node asking for the unregistered tool "x", after a
\* registered tool had returned
C31_Witness ==
    /\ pc = "thrown" /\ Len(steps) = 1 /\ idx = 2
    /\ steps[1].type = "tool"
    /\ ToolNameOf(NodeById(orderedNodeIds[2])) = "x"
    /\ result.message = "Unknown tool name \"x\" requested by node \"t3\"."

----------------------------------------------------------------------------
(* KnowledgeBaseIndexer.buildIndex: every entry of every source is         *)
(* tokenized and embedded; the embedding calls are all started at once     *)
(* and settle in any order                                                 *)

MaxSourceEntries == 2

\* entries of the configuration; the last one has no text to embed
IndexEntryPool ==
    { [id |-> "kb-oil", title |-> "Oil change", content |-> "Change the oil",
       tags |-> <<"service">>, priority |-> 200],
      [title |-> "Refunds", summary |-> "Billing", content |-> "Need a receipt"],
      [title |-> " ", content |-> ""] }

\* the knowledgeBases of the configuration, in the order of their keys: no
\* source, one source, two sources
IndexConfigurations ==
    LET lists == { es \in SeqsUpTo(IndexEntryPool, MaxSourceEntries) : Distinct(es) }
        shop == [source |-> "shop",
                 entries |-> << [title |-> "Tires", content |-> "Rotate"] >>]
    IN  { <<>> }
        \cup { << [source |-> "faq", entries |-> es] >> : es \in lists }
        \cup { << [source |-> "faq", entries |-> es], shop >> : es \in lists }
        \cup { << shop, [source |-> "faq", entries |-> es] >> : es \in lists }

\* what embedQuery resolves to for an entry
EntryEmbeddings == { <<1, 0>> }

\* embedEntry makes a call for the entry: there is a provider and a text
CallsProvider(entry, embeddings) ==
    embeddings /\ Trim(Join(EntryBucket(entry), "\n")) # ""

\* the positions <<source, entry>> of the entries of the configuration
EntryPositions(sources) ==
    { <<i, j>> : i \in DOMAIN sources, j \in 1..MaxSourceEntries + 1 } \cap
    UNION { { <<i, j>> : j \in DOMAIN sources[i].entries } : i \in DOMAIN sources }

InitIndex ==
    /\ pipeline = Pipeline(<<>>, [hasEdges |-> FALSE, edges |-> <<>>])
    /\ userInput = ""
    /\ pc = "idle"
    /\ orderedNodeIds = <<>>
    /\ warnings = <<>>
    /\ idx = 0
    /\ state = NoState
    /\ steps = <<>>
    /\ inflight = {}
    /\ \E sources \in IndexConfigurations, embeddings \in BOOLEAN :
          locals = [sources |-> sources, embeddings |-> embeddings]
    /\ calls = <<>>
    /\ result = NoResult

\* enrichEntry once the entry's embedding is known
EnrichEntry(entry, embedding) ==
    IF embedding.defined THEN EmbeddedEntry(entry, embedding.v) ELSE IndexedEntry(entry)

\* an index whose entries stand in the order their embedding calls settled
\* in, the entries without a call last
IndexOfSourcesAsSettled(sources, embedded) ==
    [source \in { sources[i].source : i \in DOMAIN sources } |->
        LET i == CHOOSE k \in DOMAIN sources : sources[k].source = source
            settled == SelectSeq([c \in DOMAIN calls |-> calls[c].position],
                                 LAMBDA p : p[1] = i)
            others == SelectSeq([j \in DOMAIN sources[i].entries |-> <<i, j>>],
                                LAMBDA p : \A c \in DOMAIN calls : calls[c].position # p)
            order == settled \o others
        IN  [k \in DOMAIN sources[i].entries |->
                EnrichEntry(sources[i].entries[order[k][2]], embedded[order[k]])]]

\* the reduce of buildIndex: acc[source] = entries, for every source
IndexOfSources(sources, embedded) ==
    [source \in { sources[i].source : i \in DOMAIN sources } |->
        LET i == CHOOSE k \in DOMAIN sources : sources[k].source = source
        IN  [j \in DOMAIN sources[i].entries |->
                EnrichEntry(sources[i].entries[j], embedded[<<i, j>>])]]

\* buildIndex is called: every enrichEntry runs up to its embedQuery call; an
\* entry without provider or text has its embedding (undefined) at once
BuildIndex ==
    /\ pc = "idle"
    /\ LET sources == locals.sources
           called == { p \in EntryPositions(sources) :
                         CallsProvider(sources[p[1]].entries[p[2]], locals.embeddings) }
       IN  IF sources = <<>>
           THEN /\ result' = [kind |-> "index", index |-> <<>>]
                /\ pc' = "indexed"
                /\ UNCHANGED <<inflight, locals>>
           ELSE /\ inflight' = called
                /\ locals' = [sources |-> sources, embeddings |-> locals.embeddings,
                              embedded |-> [p \in EntryPositions(sources) \ called |->
                                               NoEmbedding]]
                /\ pc' = "indexing"
                /\ UNCHANGED result
    /\ UNCHANGED <<pipeline, userInput, orderedNodeIds, warnings, idx, state, steps, calls>>

\* embedQuery resolves for one entry
EmbedEntryResolve ==
    /\ pc = "indexing"
    /\ \E p \in inflight, v \in EntryEmbeddings :
          /\ locals' = [locals EXCEPT !.embedded = (p :> Embedding(v)) @@ @]
          /\ inflight' = inflight \ {p}
          /\ calls' = Append(calls, [position |-> p, settled |-> "resolved"])
    /\ UNCHANGED <<pipeline, userInput, pc, orderedNodeIds, warnings, idx, state, steps,
                   result>>

\* an indexer whose failed embedding call rejects the whole build
EmbedEntryRejectAborts ==
    /\ pc = "indexing"
    /\ \E p \in inflight :
          /\ result' = Thrown("Error", "embedding failed")
          /\ inflight' = inflight \ {p}
          /\ calls' = Append(calls, [position |-> p, settled |-> "rejected"])
    /\ pc' = "thrown"
    /\ UNCHANGED <<pipeline, userInput, orderedNodeIds, warnings, idx, state, steps,
                   locals>>

\* embedQuery rejects for one entry: embedEntry warns and returns undefined
EmbedEntryReject ==
    /\ pc = "indexing"
    /\ \E p \in inflight :
          /\ locals' = [locals EXCEPT !.embedded = (p :> NoEmbedding) @@ @]
          /\ inflight' = inflight \ {p}
          /\ calls' = Append(calls, [position |-> p, settled |-> "rejected"])
          /\ warnings' = Append(warnings, "Vectorization failed for "
                                 \o (LET entry == locals.sources[p[1]].entries[p[2]]
                                     IN  IF Has(entry, "id") THEN entry.id ELSE entry.title))
    /\ UNCHANGED <<pipeline, userInput, pc, orderedNodeIds, idx, state, steps, result>>

\* every enrichEntry has returned: both Promise.all resolve and the index is
\* assembled
IndexBuilt ==
    /\ pc = "indexing"
    /\ inflight = {}
    /\ result' = [kind |-> "index",
                  index |-> IndexOfSources(locals.sources, locals.embedded)]
    /\ pc' = "indexed"
    /\ UNCHANGED <<pipeline, userInput, orderedNodeIds, warnings, idx, state, steps,
                   inflight, locals, calls>>

NextIndex == BuildIndex \/ EmbedEntryResolve \/ EmbedEntryReject \/ IndexBuilt

SpecIndex == InitIndex /\ [][NextIndex]_vars

----------------------------------------------------------------------------
(* Properties of the indexer (checked under SpecIndex)                     *)

\* how the embedding call of the entry at the position ended, "none" when
\* no call was made for it
SettledAs(p) ==
    IF \E i \in DOMAIN calls : calls[i].position = p
    THEN calls[CHOOSE i \in DOMAIN calls : calls[i].position = p].settled
    ELSE "none"

\* C25: buildIndex returns, for every source, one indexed entry per input
\* entry, in order, whichever embedding calls fail: each keeps the input's
\* fields and its tokens, has the embedding its call resolved to and none when
\* the call failed; a failure aborts nothing.
C25_IndexSurvivesEmbeddingFailures ==
    /\ pc # "thrown"
    /\ pc = "indexing" =>
          /\ inflight \cap DOMAIN locals.embedded = {}
          /\ inflight \cup DOMAIN locals.embedded = EntryPositions(locals.sources)
    /\ pc = "indexed" =>
          /\ DOMAIN result.index = { locals.sources[i].source : i \in DOMAIN locals.sources }
          /\ \A i \in DOMAIN locals.sources :
                LET entries == locals.sources[i].entries
                    indexed == result.index[locals.sources[i].source]
                IN  /\ Len(indexed) = Len(entries)
                    /\ \A j \in DOMAIN entries :
                          /\ \A f \in DOMAIN entries[j] : indexed[j][f] = entries[j][f]
                          /\ indexed[j].tokens = TokenizeEntry(entries[j])
                          /\ IF SettledAs(<<i, j>>) = "resolved"
                             THEN "embedding" \in DOMAIN indexed[j]
                             ELSE DOMAIN indexed[j] = DOMAIN entries[j] \cup {"tokens"}

\* of two entries of a source the first one's embedding call failed and the
\* second one's resolved, and the other source was indexed with its embedding
C25_Witness ==
    /\ pc = "indexed"
    /\ Len(locals.sources) = 2
    /\ locals.sources[1].source = "faq" /\ Len(locals.sources[1].entries) = 2
    /\ SettledAs(<<1, 1>>) = "rejected"
    /\ SettledAs(<<1, 2>>) = "resolved"
    /\ SettledAs(<<2, 1>>) = "resolved"
    /\ "embedding" \notin DOMAIN result.index["faq"][1]
    /\ result.index["faq"][1].tokens # <<>>
    /\ result.index["faq"][2].embedding = <<1, 0>>
    /\ result.index["shop"][1].embedding = <<1, 0>>

\* the string is made of the characters a to z and 0 to 9
IsLowercaseAlphanumeric(token) == \A k \in 1..Len(token) : IsAlnum(Ch(token, k))

\* C40: the indexed entries of every source stand in the order of the
\* configured entries, in whatever order the embedding calls resolved or
\* rejected, and the tokens of each entry are distinct, not empty and made of
\* lowercase letters and digits.
C40_OrderKeptTokensNormalized ==
    pc = "indexed" =>
        \A i \in DOMAIN locals.sources :
            LET entries == locals.sources[i].entries
                indexed == result.index[locals.sources[i].source]
            IN  /\ DOMAIN indexed = DOMAIN entries
                /\ \A j \in DOMAIN entries :
                      /\ [f \in DOMAIN entries[j] |-> indexed[j][f]] = entries[j]
                      /\ Distinct(indexed[j].tokens)
                      /\ \A t \in DOMAIN indexed[j].tokens :
                            /\ indexed[j].tokens[t] # ""
                            /\ IsLowercaseAlphanumeric(indexed[j].tokens[t])

\* the call of the second entry of a source settled before the call of the
\* first one, and the index holds the two in the configured order, the first
\* with the tokens of a text that repeats words in another letter case
C40_Witness ==
    /\ pc = "indexed"
    /\ Len(calls) >= 2
    /\ calls[1].position = <<1, 2>>
    /\ calls[2].position = <<1, 1>>
    /\ result.index[locals.sources[1].source][1].title = "Oil change"
    /\ result.index[locals.sources[1].source][1].tokens
          = <<"oil", "change", "the", "service">>
    /\ result.index[locals.sources[1].source][2].title = "Refunds"

----------------------------------------------------------------------------
(* The service across restarts: onModuleInit loads the configuration,      *)
(* builds the index and syncs the vector store before the server listens;  *)
(* the table of the vector store outlives the process                      *)

MaxRestarts == 2

\* a pipeline of the configuration: its name and its retriever's source
ConfiguredPipeline(name, source) ==
    [name |-> name] @@ Pipeline(<< Node("kb", "retriever", [source |-> source]) >>,
                                [hasEdges |-> FALSE, edges |-> <<>>])

OilEntry == [id |-> "kb-oil", title |-> "Oil change", content |-> "Change the oil"]

RefundsEntry == [title |-> "Refunds", content |-> "Need a receipt"]

\* the configuration file at a start: two entries, one of them removed, the
\* source replaced by another one, and a file that cannot be read or parsed
ConfigFiles ==
    { [readable |-> TRUE, pipelines |-> << ConfiguredPipeline("support", "faq") >>,
       knowledgeBases |-> << [source |-> "faq", entries |-> <<OilEntry, RefundsEntry>>] >>],
      [readable |-> TRUE, pipelines |-> << ConfiguredPipeline("support-2", "faq") >>,
       knowledgeBases |-> << [source |-> "faq", entries |-> <<OilEntry>>] >>],
      [readable |-> TRUE, pipelines |-> << ConfiguredPipeline("shop", "shop") >>,
       knowledgeBases |-> << [source |-> "shop",
                              entries |-> << [title |-> "Tires", content |-> "Rotate"] >>] >>],
      [readable |-> FALSE, pipelines |-> <<>>, knowledgeBases |-> <<>>] }

StoreSources == {"faq", "shop"}

\* the table knowledge_vectors without a row
NoRows == [source \in StoreSources |-> <<>>]

\* the fields of a fresh AgentService; the table is what the last process left
FreshService(file, enabled, rows, loaded) ==
    [file |-> file, enabled |-> enabled, pipelineDefinitions |-> <<>>,
     knowledgeBases |-> <<>>, knowledgeBaseIndex |-> <<>>, rows |-> rows,
     todo |-> <<>>, loaded |-> loaded]

InitReload ==
    /\ pipeline = Pipeline(<<>>, [hasEdges |-> FALSE, edges |-> <<>>])
    /\ userInput = ""
    /\ pc = "stopped"
    /\ orderedNodeIds = <<>>
    /\ warnings = <<>>
    /\ idx = 0
    /\ state = NoState
    /\ steps = <<>>
    /\ inflight = {}
    /\ locals = FreshService([readable |-> FALSE, pipelines |-> <<>>,
                              knowledgeBases |-> <<>>], FALSE, NoRows, <<>>)
    /\ calls = <<>>
    /\ result = NoResult

\* the process starts (again) with the file it finds: onModuleInit up to
\* loadPipelineConfig; runs of the stopped process are gone
StartService ==
    /\ pc \in {"stopped", "listening"}
    /\ Len(locals.loaded) < MaxRestarts
    /\ \E file \in ConfigFiles, enabled \in BOOLEAN :
          locals' = FreshService(file, enabled, locals.rows, Append(locals.loaded, file))
    /\ result' = NoResult
    /\ pc' = "reading"
    /\ UNCHANGED <<pipeline, userInput, orderedNodeIds, warnings, idx, state, steps,
                   inflight, calls>>

\* the catch block and the empty-file branch of loadPipelineConfig
ClearedService(service) ==
    [service EXCEPT !.pipelineDefinitions = <<>>, !.knowledgeBases = <<>>,
                    !.knowledgeBaseIndex = <<>>, !.todo = <<>>]

\* loadPipelineConfig reads and parses the file: the definitions and the
\* knowledge bases are assigned, then buildIndex is awaited
ReadConfig ==
    /\ pc = "reading"
    /\ IF locals.file.readable
       THEN /\ locals' = [locals EXCEPT !.pipelineDefinitions = locals.file.pipelines,
                                        !.knowledgeBases = locals.file.knowledgeBases]
            /\ pc' = "building"
       ELSE /\ locals' = ClearedService(locals)
            /\ pc' = "listening"
    /\ UNCHANGED <<pipeline, userInput, orderedNodeIds, warnings, idx, state, steps,
                   inflight, calls, result>>

\* Object.keys of the index, in insertion order
SourcesOf(sources) == [i \in DOMAIN sources |-> sources[i].source]

\* an assignment of an index that holds only the first entry of each source
AssignIndexFirstEntries ==
    /\ pc = "building"
    /\ \E embedded \in [EntryPositions(locals.knowledgeBases) ->
                            {NoEmbedding} \cup { Embedding(v) : v \in EntryEmbeddings }] :
          LET index == IndexOfSources(locals.knowledgeBases, embedded)
          IN  locals' = [locals EXCEPT
                            !.knowledgeBaseIndex =
                                [source \in DOMAIN index |-> SubSeq(index[source], 1, 1)],
                            !.todo = IF locals.enabled
                                     THEN SourcesOf(locals.knowledgeBases) ELSE <<>>]
    /\ pc' = "syncing"
    /\ UNCHANGED <<pipeline, userInput, orderedNodeIds, warnings, idx, state, steps,
                   inflight, calls, result>>

\* buildIndex resolves: the complete index is assigned, then syncSources is
\* awaited (it does nothing when the store is disabled or the index is empty)
AssignIndex ==
    /\ pc = "building"
    /\ \E embedded \in [EntryPositions(locals.knowledgeBases) ->
                            {NoEmbedding} \cup { Embedding(v) : v \in EntryEmbeddings }] :
          locals' = [locals EXCEPT
                        !.knowledgeBaseIndex =
                            IndexOfSources(locals.knowledgeBases, embedded),
                        !.todo = IF locals.enabled
                                 THEN SourcesOf(locals.knowledgeBases) ELSE <<>>]
    /\ pc' = "syncing"
    /\ UNCHANGED <<pipeline, userInput, orderedNodeIds, warnings, idx, state, steps,
                   inflight, calls, result>>

\* the row syncSource inserts for an entry
RowOf(entry) ==
    [id |-> IF Has(entry, "id") THEN entry.id ELSE entry.title,
     title |-> entry.title, content |-> entry.content, score |-> 9000]

\* the rows a committed syncSource leaves: those of the embedded entries
SyncedRows(entries) ==
    LET embedded == SelectSeq(entries, LAMBDA e : Has(e, "embedding") /\ e.embedding # <<>>)
    IN  [i \in DOMAIN embedded |-> RowOf(embedded[i])]

\* syncSource for the next source of the index: the transaction commits
\* (DELETE, then one INSERT per embedded entry), or a statement fails and it
\* is rolled back, or no connection is obtained and the load fails
SyncSource ==
    /\ pc = "syncing"
    /\ locals.todo # <<>>
    /\ LET source == Head(locals.todo)
           entries == locals.knowledgeBaseIndex[source]
       IN  IF entries = <<>>
           THEN /\ locals' = [locals EXCEPT !.todo = Tail(locals.todo)]
                /\ UNCHANGED <<pc, warnings>>
           ELSE \/ /\ locals' = [locals EXCEPT !.todo = Tail(locals.todo),
                                               !.rows[source] = SyncedRows(entries)]
                   /\ UNCHANGED <<pc, warnings>>
                \/ /\ locals' = [locals EXCEPT !.todo = Tail(locals.todo)]
                   /\ warnings' = Append(warnings, "Failed to sync vector store for source \""
                                                   \o source \o "\"")
                   /\ UNCHANGED pc
                \/ /\ locals' = ClearedService(locals)
                   /\ warnings' = Append(warnings, "Failed to read pipeline configuration")
                   /\ pc' = "listening"
    /\ UNCHANGED <<pipeline, userInput, orderedNodeIds, idx, state, steps, inflight,
                   calls, result>>

\* syncSources has returned: onModuleInit completes and the server listens
LoadDone ==
    /\ pc = "syncing"
    /\ locals.todo = <<>>
    /\ pc' = "listening"
    /\ UNCHANGED <<pipeline, userInput, orderedNodeIds, warnings, idx, state, steps,
                   inflight, locals, calls, result>>

RetrieveQueries == { "oil", "zebra" }

\* a run of a configured pipeline reaches its retriever node: the source's
\* entries are read from the index, and the matches are the rows of the
\* vector store when it returns some, the local ranking otherwise
Retrieve ==
    /\ pc = "listening"
    /\ \E i \in DOMAIN locals.pipelineDefinitions, query \in RetrieveQueries,
          queryEmbedding \in {NoEmbedding} \cup { Embedding(v) : v \in QueryEmbeddings } :
          LET definition == locals.pipelineDefinitions[i]
              node == definition.nodes[1]
              source == node.config.source
              knowledgeBase == IF source \in DOMAIN locals.knowledgeBaseIndex
                               THEN locals.knowledgeBaseIndex[source] ELSE <<>>
              vectorResults == IF queryEmbedding.defined /\ locals.enabled
                               THEN Slice0(locals.rows[source], TopK(node))
                               ELSE <<>>
              output == IF vectorResults # <<>>
                        THEN VectorRetrieverOutput(source, vectorResults)
                        ELSE LocalRetrieverOutput(source,
                                 RankLocal(knowledgeBase, TokenizeText(query),
                                           queryEmbedding, TopK(node)))
          IN  result' = IF knowledgeBase = <<>>
                        THEN Thrown("NotFoundException",
                                    "Knowledge source \"" \o source
                                    \o "\" is not configured or empty.")
                             @@ [pipeline |-> definition, knowledgeBase |-> knowledgeBase]
                        ELSE [kind |-> "retrieved", pipeline |-> definition,
                              source |-> source, knowledgeBase |-> knowledgeBase,
                              fromStore |-> vectorResults # <<>>, output |-> output]
    /\ UNCHANGED <<pipeline, userInput, pc, orderedNodeIds, warnings, idx, state, steps,
                   inflight, locals, calls>>

NextReload ==
    StartService \/ ReadConfig \/ AssignIndex \/ SyncSource \/ LoadDone \/ Retrieve

SpecReload == InitReload /\ [][NextReload]_vars

----------------------------------------------------------------------------
(* Properties of the load (checked under SpecReload)                       *)

\* the entries the file configures for the source, none when it has no such
\* source
ConfiguredEntries(file, source) ==
    IF \E i \in DOMAIN file.knowledgeBases : file.knowledgeBases[i].source = source
    THEN file.knowledgeBases[CHOOSE i \in DOMAIN file.knowledgeBases :
                                file.knowledgeBases[i].source = source].entries
    ELSE <<>>

\* the knowledge base is the complete index of the file's source: one entry
\* per configured entry, in order, with the tokens of that entry
CompleteFor(file, source, knowledgeBase) ==
    LET configured == ConfiguredEntries(file, source)
    IN  /\ Len(knowledgeBase) = Len(configured)
        /\ \A j \in DOMAIN configured :
              /\ knowledgeBase[j].title = configured[j].title
              /\ knowledgeBase[j].content = configured[j].content
              /\ knowledgeBase[j].tokens = TokenizeEntry(configured[j])

\* a run has read the index
RunObserved == result.kind \in {"retrieved", "throw"}

MatchTitles ==
    LET matches == GetProp(result.output, "matches").items
    IN  { GetProp(matches[i], "title").s : i \in DOMAIN matches }

\* C27: once a load has completed, a retrieval returns no entry that the
\* loaded configuration does not hold for the source, from the local ranking
\* or from the vector store, also when the sync of the source failed or was
\* skipped.
C27_RemovedEntriesVanish ==
    result.kind = "retrieved" =>
        \A title \in MatchTitles :
            \E j \in DOMAIN ConfiguredEntries(locals.file, result.source) :
                ConfiguredEntries(locals.file, result.source)[j].title = title


----------------------------------------------------------------------------
(* Concurrent runs: requests are served on one event loop, so a run        *)
(* executes without interruption up to its next await, and the runs share  *)
(* the fields of the one AgentService                                      *)

Runs == {"r1", "r2"}

DefaultTemperature == 7000

DefaultModelName == "gemini-2.5-flash"

\* an instance of ChatGoogleGenerativeAI: serial tells one object from another
ModelInstance(temperature, serial) == [temperature |-> temperature, serial |-> serial]

\* this.model, constructed once in onModuleInit
DefaultModel == ModelInstance(DefaultTemperature, 0)

\* this.pipelineDefinitions after the load
RunDefinitions ==
    << [name |-> "triage"]
       @@ Pipeline(<< Node("Intent", "llm", [temperature |-> 2000]),
                      Node("kb", "retriever", [source |-> "faq", top_k |-> 1]) >>,
                   [hasEdges |-> FALSE, edges |-> <<>>]),
       [name |-> "quick"]
       @@ Pipeline(<< Node("Draft", "llm", [temperature |-> DefaultTemperature]),
                      Node("Answer", "llm", [prompt |-> "{draft}|{context}",
                                              model |-> "gemini-pro",
                                              temperature |-> 9000]) >>,
                   [hasEdges |-> FALSE, edges |-> <<>>]) >>

\* pipelineRunDto.pipelineName and pipelineRunDto.input of the requests
RunPipelineNames == {"triage", "Quick", "ghost"}

RunUserInputs == {"Need Oil", "refunds"}

RunLlmResponses == { Str("  billing \n"), Obj(<< Prop("content", Str("see {input}")) >>) }

\* the service when it starts to listen: the definitions and the index of the
\* configuration, an empty model cache, no variant constructed
LoadedService ==
    [pipelineDefinitions |-> RunDefinitions, knowledgeBaseIndex |-> KnowledgeBaseIndex,
     pipelineModelCache |-> <<>>, constructed |-> <<>>]

\* `${this.defaultModelName}: ${temperature}`
ModelCacheKey(temperature) == DefaultModelName \o ": " \o NumberToString(temperature)

\* a getModelInstance that constructs an instance for every request of a variant
GetModelInstanceNoLookup(service, node) ==
    LET warned == IF HasCfg(node, "model") /\ node.config.model # DefaultModelName
                  THEN << "Model \"" \o node.config.model
                          \o "\" requested by pipeline but only Google Gemini("
                          \o DefaultModelName \o ") is configured.Falling back." >>
                  ELSE <<>>
    IN  IF HasCfg(node, "temperature") /\ node.config.temperature # DefaultTemperature
        THEN LET cacheKey == ModelCacheKey(node.config.temperature)
                 made == ModelInstance(node.config.temperature,
                                       Len(service.constructed) + 1)
             IN  [service |-> [service EXCEPT
                                  !.pipelineModelCache = (cacheKey :> made) @@ @,
                                  !.constructed = Append(@, cacheKey)],
                  llm |-> made, warned |-> warned]
        ELSE [service |-> service, llm |-> DefaultModel, warned |-> warned]

\* getModelInstance: the service after the call, the instance returned and the
\* warning logged; has, set and get run without an await between them
GetModelInstance(service, node) ==
    LET warned == IF HasCfg(node, "model") /\ node.config.model # DefaultModelName
                  THEN << "Model \"" \o node.config.model
                          \o "\" requested by pipeline but only Google Gemini("
                          \o DefaultModelName \o ") is configured.Falling back." >>
                  ELSE <<>>
    IN  IF HasCfg(node, "temperature") /\ node.config.temperature # DefaultTemperature
        THEN LET cacheKey == ModelCacheKey(node.config.temperature)
                 cached == cacheKey \in DOMAIN service.pipelineModelCache
                 made == ModelInstance(node.config.temperature,
                                       Len(service.constructed) + 1)
                 after == IF cached THEN service
                          ELSE [service EXCEPT
                                   !.pipelineModelCache = (cacheKey :> made) @@ @,
                                   !.constructed = Append(@, cacheKey)]
             IN  [service |-> after, llm |-> after.pipelineModelCache[cacheKey],
                  warned |-> warned]
        ELSE [service |-> service, llm |-> DefaultModel, warned |-> warned]

\* this.pipelineDefinitions.find(...) of runPipeline: the index, 0 for none
FindDefinition(definitions, pipelineName) ==
    LET hits == { i \in DOMAIN definitions :
                     \/ definitions[i].name = pipelineName
                     \/ ToLowerCase(definitions[i].name) = ToLowerCase(pipelineName) }
    IN  IF hits = {} THEN 0 ELSE CHOOSE i \in hits : \A j \in hits : i <= j

NoFrame == [kind |-> "none"]

InitRuns ==
    /\ pipeline \in [Runs -> RunPipelineNames]
    /\ userInput \in [Runs -> RunUserInputs]
    /\ pc = [r \in Runs |-> "idle"]
    /\ orderedNodeIds = [r \in Runs |-> <<>>]
    /\ warnings = <<>>
    /\ idx = [r \in Runs |-> 0]
    /\ state = [r \in Runs |-> NoState]
    /\ steps = [r \in Runs |-> <<>>]
    /\ inflight = [r \in Runs |-> NoFrame]
    /\ locals = LoadedService
    /\ calls = [r \in Runs |-> <<>>]
    /\ result = [r \in Runs |-> NoResult]

\* the definition run r executes
RunDefinition(r) ==
    locals.pipelineDefinitions[FindDefinition(locals.pipelineDefinitions, pipeline[r])]

RunAtNode(r) ==
    /\ pc[r] = "loop"
    /\ idx[r] <= Len(orderedNodeIds[r])
    /\ FindNode(RunDefinition(r), orderedNodeIds[r][idx[r]]) # 0

RunCurrentNode(r) ==
    RunDefinition(r).nodes[FindNode(RunDefinition(r), orderedNodeIds[r][idx[r]])]

RunCall(r, node, kind, arg) ==
    [nodeId |-> node.id, kind |-> kind, arg |-> arg,
     stepsAtCall |-> Len(steps[r]), stateAtCall |-> state[r]]

\* a loop body that keeps one PipelineState for all the runs
RunCompleteSharedState(r, node, output) ==
    /\ state' = [q \in Runs |-> IF q = r \/ state[q] # NoState
                                  THEN ApplyNodeOutput(node, output, state[r])
                                  ELSE state[q]]
    /\ steps' = [steps EXCEPT ![r] = Append(@, StepRecord(node, output))]
    /\ idx' = [idx EXCEPT ![r] = @ + 1]
    /\ inflight' = [inflight EXCEPT ![r] = NoFrame]
    /\ pc' = [pc EXCEPT ![r] = "loop"]

\* the loop body of run r after the node's output is known
RunComplete(r, node, output) ==
    /\ state' = [state EXCEPT ![r] = ApplyNodeOutput(node, output, @)]
    /\ steps' = [steps EXCEPT ![r] = Append(@, StepRecord(node, output))]
    /\ idx' = [idx EXCEPT ![r] = @ + 1]
    /\ inflight' = [inflight EXCEPT ![r] = NoFrame]
    /\ pc' = [pc EXCEPT ![r] = "loop"]

\* an exception leaves run r
RunThrow(r, error, message) ==
    /\ result' = [result EXCEPT ![r] = Thrown(error, message)]
    /\ inflight' = [inflight EXCEPT ![r] = NoFrame]
    /\ pc' = [pc EXCEPT ![r] = "thrown"]
    /\ UNCHANGED <<state, steps, idx>>

\* runPipeline up to the first await of executePipeline's loop: the definition
\* is looked up by name, the state created and the order computed
RunPipeline(r) ==
    /\ pc[r] = "idle"
    /\ IF locals.pipelineDefinitions = <<>>
       THEN /\ RunThrow(r, "NotFoundException",
                        "No pipelines have been configured. Please update config.json.")
            /\ UNCHANGED orderedNodeIds
       ELSE IF FindDefinition(locals.pipelineDefinitions, pipeline[r]) = 0
       THEN /\ RunThrow(r, "NotFoundException",
                        "Pipeline \"" \o pipeline[r] \o "\" was not found inside config.json.")
            /\ UNCHANGED orderedNodeIds
       ELSE /\ state' = [state EXCEPT ![r] = InitialState(userInput[r])]
            /\ orderedNodeIds' = [orderedNodeIds EXCEPT
                                     ![r] = BuildExecutionOrder(RunDefinition(r))]
            /\ steps' = [steps EXCEPT ![r] = <<>>]
            /\ idx' = [idx EXCEPT ![r] = 1]
            /\ pc' = [pc EXCEPT ![r] = "loop"]
            /\ UNCHANGED <<inflight, result>>
    /\ UNCHANGED <<pipeline, userInput, warnings, locals, calls>>

\* runLlmNode of run r up to its await: the prompt is interpolated, the model
\* instance taken from the cache or constructed, and the model invoked
RunStartLlmNode(r) ==
    /\ RunAtNode(r) /\ RunCurrentNode(r).type = "llm"
    /\ LET node == RunCurrentNode(r)
           promptTemplate == IF HasCfg(node, "prompt") THEN node.config.prompt
                             ELSE "{input}"
           prompt == InterpolatePrompt(promptTemplate, state[r])
           got == GetModelInstance(locals, node)
       IN  /\ locals' = got.service
           /\ warnings' = warnings \o got.warned
           /\ calls' = [calls EXCEPT
                           ![r] = Append(@, [llm |-> got.llm]
                                            @@ RunCall(r, node, "llm", prompt))]
           /\ inflight' = [inflight EXCEPT
                              ![r] = [kind |-> "llm", llm |-> got.llm, prompt |-> prompt]]
    /\ pc' = [pc EXCEPT ![r] = "llm"]
    /\ UNCHANGED <<pipeline, userInput, orderedNodeIds, idx, state, steps, result>>

\* llm.invoke of run r resolves
RunLlmResolve(r) ==
    /\ pc[r] = "llm"
    /\ \E response \in RunLlmResponses :
          RunComplete(r, RunCurrentNode(r),
                      Str(Trim(ExtractContentFromMessage(response))))
    /\ UNCHANGED <<pipeline, userInput, orderedNodeIds, warnings, locals, calls, result>>

\* llm.invoke of run r rejects
RunLlmReject(r) ==
    /\ pc[r] = "llm"
    /\ RunThrow(r, "Error", "model invocation failed")
    /\ UNCHANGED <<pipeline, userInput, orderedNodeIds, warnings, locals, calls>>

\* this.knowledgeBaseIndex[source] of the running service
RunKnowledgeBase(source) ==
    IF source \in DOMAIN locals.knowledgeBaseIndex
    THEN locals.knowledgeBaseIndex[source] ELSE <<>>

\* the local ranking of run r's retriever: map, sort and slice build new arrays
\* and leave the entries of the index as they are
RunLocalMatches(r, node, frame, queryEmbedding) ==
    /\ RunComplete(r, node,
                   LocalRetrieverOutput(frame.source,
                       RankLocal(RunKnowledgeBase(frame.source), frame.queryTokens,
                                 queryEmbedding, frame.topK)))
    /\ UNCHANGED locals

\* runRetrieverNode of run r up to its first await
RunStartRetrieverNode(r) ==
    /\ RunAtNode(r) /\ RunCurrentNode(r).type = "retriever"
    /\ LET node == RunCurrentNode(r)
           source == IF HasCfg(node, "source") THEN node.config.source ELSE ""
           queryTokens == TokenizeText(ToLowerCase(QueryText(state[r], " ")))
           query == QueryText(state[r], "\n")
           frame == [kind |-> "embed", source |-> source, topK |-> TopK(node),
                     queryTokens |-> queryTokens, queryEmbedding |-> NoEmbedding]
       IN  IF source = ""
           THEN /\ RunThrow(r, "BadRequestException",
                            "Retriever node \"" \o node.id
                            \o "\" is missing a source configuration.")
                /\ UNCHANGED <<calls, locals>>
           ELSE IF Len(RunKnowledgeBase(source)) = 0
           THEN /\ RunThrow(r, "NotFoundException",
                            "Knowledge source \"" \o source
                            \o "\" is not configured or empty.")
                /\ UNCHANGED <<calls, locals>>
           ELSE IF Trim(query) = ""
           THEN /\ RunLocalMatches(r, node, frame, NoEmbedding)
                /\ UNCHANGED <<calls, result>>
           ELSE /\ calls' = [calls EXCEPT
                                ![r] = Append(@, RunCall(r, node, "embedding", query))]
                /\ inflight' = [inflight EXCEPT ![r] = frame]
                /\ pc' = [pc EXCEPT ![r] = "embed"]
                /\ UNCHANGED <<state, steps, idx, locals, result>>
    /\ UNCHANGED <<pipeline, userInput, orderedNodeIds, warnings>>

\* embedQuery of run r resolves: the vector store is searched
RunEmbedResolve(r) ==
    /\ pc[r] = "embed"
    /\ \E v \in QueryEmbeddings :
          inflight' = [inflight EXCEPT ![r] = [@ EXCEPT !.kind = "vector",
                                                        !.queryEmbedding = Embedding(v)]]
    /\ calls' = [calls EXCEPT
                    ![r] = Append(@, RunCall(r, RunCurrentNode(r), "vector",
                                             inflight[r].source))]
    /\ pc' = [pc EXCEPT ![r] = "vector"]
    /\ UNCHANGED <<pipeline, userInput, orderedNodeIds, warnings, idx, state, steps,
                   locals, result>>

\* embedQuery of run r rejects: the entries are ranked locally
RunEmbedReject(r) ==
    /\ pc[r] = "embed"
    /\ warnings' = Append(warnings, "Vectorization failed for retriever-query")
    /\ RunLocalMatches(r, RunCurrentNode(r), inflight[r], NoEmbedding)
    /\ UNCHANGED <<pipeline, userInput, orderedNodeIds, calls, result>>

\* semanticSearch of run r returns
RunVectorSettle(r) ==
    /\ pc[r] = "vector"
    /\ \E vectorResults \in SemanticSearchResults :
          /\ Len(vectorResults) <= inflight[r].topK
          /\ calls' = [calls EXCEPT
                          ![r] = [i \in DOMAIN @ |->
                                     IF i = Len(@) THEN [rows |-> vectorResults] @@ @[i]
                                     ELSE @[i]]]
          /\ IF Len(vectorResults) > 0
             THEN /\ RunComplete(r, RunCurrentNode(r),
                                 VectorRetrieverOutput(inflight[r].source, vectorResults))
                  /\ UNCHANGED locals
             ELSE RunLocalMatches(r, RunCurrentNode(r), inflight[r],
                                  inflight[r].queryEmbedding)
    /\ UNCHANGED <<pipeline, userInput, orderedNodeIds, warnings, result>>

\* the loop of run r ended: executePipeline returns
RunFinish(r) ==
    /\ pc[r] = "loop"
    /\ idx[r] > Len(orderedNodeIds[r])
    /\ result' = [result EXCEPT ![r] = PipelineResult(state[r], steps[r])]
    /\ pc' = [pc EXCEPT ![r] = "returned"]
    /\ UNCHANGED <<pipeline, userInput, orderedNodeIds, warnings, idx, state, steps,
                   inflight, locals, calls>>

NextRuns ==
    \E r \in Runs :
       \/ RunPipeline(r)
       \/ RunStartLlmNode(r)
       \/ RunLlmResolve(r)
       \/ RunLlmReject(r)
       \/ RunStartRetrieverNode(r)
       \/ RunEmbedResolve(r)
       \/ RunEmbedReject(r)
       \/ RunVectorSettle(r)
       \/ RunFinish(r)

SpecRuns == InitRuns /\ [][NextRuns]_vars


----------------------------------------------------------------------------
(* Properties of concurrent runs (checked under SpecRuns)                  *)

RunStarted(r) == state[r] # NoState

RunNodeById(r, id) == RunDefinition(r).nodes[FindNode(RunDefinition(r), id)]

\* the node's temperature selects a cached variant
RequestsVariant(node) ==
    HasCfg(node, "temperature") /\ node.config.temperature # DefaultTemperature

\* the model invocations of all runs: the run and the position in its call log
LlmCalls == { rc \in Runs \X (1..3) :
                 /\ rc[2] \in DOMAIN calls[rc[1]]
                 /\ calls[rc[1]][rc[2]].kind = "llm" }

\* C28: under any interleaving of concurrent runs at most one model instance is
\* constructed per cache key: every construction is of a key that was not yet
\* cached, and every invocation for a temperature variant, from whatever run,
\* uses the one cached instance of that variant (the default model otherwise).
C28_OneInstancePerVariant ==
    /\ Range(locals.constructed) = DOMAIN locals.pipelineModelCache
    /\ \A key \in DOMAIN locals.pipelineModelCache :
          Occurrences(locals.constructed, key) = 1
    /\ \A key1, key2 \in DOMAIN locals.pipelineModelCache :
          key1 # key2 => locals.pipelineModelCache[key1] # locals.pipelineModelCache[key2]
    /\ \A rc \in LlmCalls :
          LET call == calls[rc[1]][rc[2]]
              node == RunNodeById(rc[1], call.nodeId)
          IN  IF RequestsVariant(node)
              THEN /\ ModelCacheKey(node.config.temperature)
                         \in DOMAIN locals.pipelineModelCache
                   /\ call.llm = locals.pipelineModelCache[
                                     ModelCacheKey(node.config.temperature)]
                   /\ call.llm.temperature = node.config.temperature
                   /\ call.llm # DefaultModel
              ELSE call.llm = DefaultModel
    /\ \A r \in Runs : pc[r] = "llm" => inflight[r].llm = calls[r][Len(calls[r])].llm

\* both runs await the model for the same uncached variant, requested by the
\* second while the first one's invocation was pending: one instance was made
C28_Witness ==
    /\ pc["r1"] = "llm" /\ pc["r2"] = "llm"
    /\ steps["r1"] = <<>> /\ steps["r2"] = <<>>
    /\ inflight["r1"].llm = inflight["r2"].llm
    /\ inflight["r1"].llm # DefaultModel
    /\ Len(locals.constructed) = 1

\* PipelineState of a run of the definition after the steps of a trace
RECURSIVE RunReplaySteps(_, _, _)
RunReplaySteps(definition, trace, st) ==
    IF trace = <<>> THEN st
    ELSE RunReplaySteps(definition, Tail(trace),
             ApplyNodeOutput(definition.nodes[FindNode(definition, Head(trace).nodeId)],
                             Head(trace).output, st))

\* what the call's argument is for the state the run was in
ExpectedArg(node, kind, st) ==
    CASE kind = "llm" ->
            InterpolatePrompt(IF HasCfg(node, "prompt") THEN node.config.prompt
                              ELSE "{input}", st)
      [] kind = "embedding" -> QueryText(st, "\n")
      [] kind = "vector" -> node.config.source

\* the outputs the run's own responses allow for a step of run r
ExpectedOutputs(r, step) ==
    LET node == RunNodeById(r, step.nodeId)
        own == { i \in DOMAIN calls[r] : calls[r][i].nodeId = step.nodeId }
        rowsBack == { i \in own : calls[r][i].kind = "vector"
                                  /\ "rows" \in DOMAIN calls[r][i]
                                  /\ calls[r][i].rows # <<>> }
    IN  IF node.type = "llm"
        THEN { Str(Trim(ExtractContentFromMessage(response))) :
                  response \in RunLlmResponses }
        ELSE IF rowsBack # {}
        THEN { VectorRetrieverOutput(node.config.source, calls[r][i].rows) :
                  i \in rowsBack }
        ELSE { LocalRetrieverOutput(node.config.source,
                   RankLocal(KnowledgeBaseIndex[node.config.source],
                             TokenizeText(ToLowerCase(
                                 QueryText(calls[r][i].stateAtCall, " "))),
                             queryEmbedding, TopK(node))) :
                  i \in { j \in own : calls[r][j].kind = "embedding" },
                  queryEmbedding \in
                      IF \E j \in own : calls[r][j].kind = "vector"
                      THEN { Embedding(v) : v \in QueryEmbeddings }
                      ELSE {NoEmbedding} }

\* C29: concurrent runs share no state but the model cache: a run's
\* PipelineState, trace, calls and result are those its own input, its
\* definition, the index and its own responses produce, whatever the other run
\* does meanwhile, and no run changes the pipeline definitions or the index.
C29_RunsOwnTheirState ==
    /\ locals.pipelineDefinitions = RunDefinitions
    /\ locals.knowledgeBaseIndex = KnowledgeBaseIndex
    /\ \A r \in Runs :
          IF RunStarted(r)
          THEN LET definition == RunDefinition(r)
                   initial == InitialState(userInput[r])
               IN  /\ orderedNodeIds[r] = BuildExecutionOrder(definition)
                   /\ StepIds(steps[r]) = SubSeq(orderedNodeIds[r], 1, Len(steps[r]))
                   /\ state[r] = RunReplaySteps(definition, steps[r], initial)
                   /\ \A i \in DOMAIN calls[r] :
                         LET call == calls[r][i]
                         IN  /\ call.stepsAtCall <= Len(steps[r])
                             /\ call.stateAtCall =
                                   RunReplaySteps(definition,
                                                  SubSeq(steps[r], 1, call.stepsAtCall),
                                                  initial)
                             /\ call.arg = ExpectedArg(RunNodeById(r, call.nodeId),
                                                       call.kind, call.stateAtCall)
                   /\ \A i \in DOMAIN steps[r] :
                         steps[r][i].output \in ExpectedOutputs(r, steps[r][i])
                   /\ pc[r] = "returned" =>
                         result[r] = PipelineResult(state[r], steps[r])
                   /\ pc[r] = "thrown" => result[r].kind = "throw"
                   /\ pc[r] \notin {"returned", "thrown"} => result[r] = NoResult
          ELSE /\ steps[r] = <<>> /\ calls[r] = <<>>
               /\ pc[r] \in {"idle", "thrown"}

\* one run returned while the other, started with another input on the same
\* pipeline, is awaiting the vector store for its last node
C29_Witness ==
    /\ pc["r1"] = "returned" /\ result["r1"].kind = "return"
    /\ pc["r2"] = "vector" /\ Len(steps["r2"]) = 1
    /\ pipeline["r1"] = "triage" /\ pipeline["r2"] = "triage"
    /\ userInput["r1"] # userInput["r2"]
    /\ result["r1"].context # state["r2"].context


----------------------------------------------------------------------------
(* Runs over retrievers whose source the index holds, holds empty, does    *)
(* not hold, or does not hold while Object.prototype has the name          *)

SourceNodePool ==
    { Node("Intent", "llm", NoConfig),
      Node("kb", "retriever", [source |-> "faq", top_k |-> 2]),
      Node("kb3", "retriever", [source |-> "empty"]),
      Node("kb4", "retriever", [source |-> "missing"]),
      Node("kb5", "retriever", [source |-> "constructor"]),
      Node("kb6", "retriever", [source |-> "toString"]) }

InitSource ==
    /\ \E first \in SourceNodePool :
          \/ pipeline = Pipeline(<<first>>, [hasEdges |-> FALSE, edges |-> <<>>])
          \/ \E second \in SourceNodePool \ {first} :
                pipeline = Pipeline(<<first, second>>,
                                    [hasEdges |-> FALSE, edges |-> <<>>])
    /\ userInput \in UserInputs
    /\ pc = "idle"
    /\ orderedNodeIds = <<>>
    /\ warnings = <<>>
    /\ idx = 0
    /\ state = NoState
    /\ steps = <<>>
    /\ inflight = {}
    /\ locals = <<>>
    /\ calls = <<>>
    /\ result = NoResult

NextSource ==
    \/ ExecutePipeline
    \/ StartLlmNode
    \/ LlmResolve
    \/ LlmReject
    \/ StartRetrieverNode
    \/ EmbedResolve
    \/ EmbedReject
    \/ VectorSettle
    \/ Finish

SpecSource == InitSource /\ [][NextSource]_vars

\* a retriever node whose source the index does not hold, or holds without
\* an entry
WithoutEntries(node) ==
    /\ node.type = "retriever"
    /\ "source" \in DOMAIN node.config
    /\ \/ node.config.source \notin DOMAIN KnowledgeBaseIndex
       \/ KnowledgeBaseIndex[node.config.source] = <<>>

\* C32: a retriever node whose source is absent from the knowledge index, or
\* present with no entry, aborts the run with a not-found error naming the
\* source; it starts no embedding call and no vector search and records no step.
C32_EmptySourceAborts ==
    \A k \in DOMAIN orderedNodeIds :
        (IsDeclared(orderedNodeIds[k]) /\ WithoutEntries(NodeById(orderedNodeIds[k]))) =>
            LET node == NodeById(orderedNodeIds[k])
            IN  /\ Started => idx <= k
                /\ (Started /\ idx = k) => pc \in {"loop", "thrown"}
                /\ (pc = "thrown" /\ idx = k) =>
                      /\ result.error = "NotFoundException"
                      /\ Includes(result.message, "\"" \o node.config.source \o "\"")
                /\ CallsOf(node.id, "embedding") = {}
                /\ CallsOf(node.id, "vector") = {}
                /\ \A i \in DOMAIN steps : steps[i].nodeId # node.id


\* C33: a failed query embedding, a disabled or failing vector store and an
\* empty vector-store result never abort a run: a retriever that made its
\* embedding call is not the node a run is aborted at, and its step then holds
\* the local ranking (without the embedding when the embedding call failed).
C33_RetrievalFailuresDegrade ==
    /\ (pc = "thrown" /\ NodeById(orderedNodeIds[idx]).type = "retriever") =>
          /\ CallsOf(orderedNodeIds[idx], "embedding") = {}
          /\ CallsOf(orderedNodeIds[idx], "vector") = {}
    /\ \A i \in DOMAIN steps :
          (steps[i].type = "retriever" /\ RowsReturnedTo(steps[i].nodeId) = <<>>) =>
              IF CallOf(steps[i].nodeId, "vector") = 0
              THEN IsLocalRanking(steps[i], NoEmbedding)
              ELSE \E v \in QueryEmbeddings : IsLocalRanking(steps[i], Embedding(v))


----------------------------------------------------------------------------
(* processQuery: the chat endpoint runs the first pipeline (or the default *)
(* agent when none is configured) and stores the turns of the call in the  *)
(* conversation; the calls are made one after another                      *)

MaxQueries == 2

ChatQueries == {"reset password", "refund?"}

\* what executePipeline returns as finalOutput
ChatFinalOutputs == {"", "Reset it."}

\* the last message of the state the default agent returns
AgentLastMessages ==
    { Obj(<< Prop("content", Str("")) >>),
      Obj(<< Prop("content", Str("Reset it.")) >>),
      Obj(<< Prop("content", Arr(<< Obj(<< Prop("text", Str("Try again")) >>) >>)) >>) }

\* a conversationId no conversation has
UnknownConversation == "c-ghost"

\* the conversations of ChatHistoryService, none stored; enabled tells the
\* PostgreSQL tables from the in-memory map
NoConversations == <<>>

\* the locals of a processQuery call that has not resolved its conversation
NoCall == [conversationId |-> "", response |-> "", known |-> {}, messageIds |-> {}]

InitChat ==
    /\ pipeline \in { <<>>, << ConfiguredPipeline("support", "faq") >> }
    /\ userInput = [query |-> "", conversationId |-> ""]
    /\ pc = "idle"
    /\ orderedNodeIds = <<>>
    /\ warnings = <<>>
    /\ idx = 0
    /\ state \in { [enabled |-> e, conversations |-> NoConversations, messages |-> 0] :
                      e \in BOOLEAN }
    /\ steps = <<>>
    /\ inflight = {}
    /\ locals = NoCall
    /\ calls = <<>>
    /\ result = NoResult

\* randomUUID() of createConversation: an id no conversation has yet
NewConversationId(conversations) ==
    "c" \o NatToString(Cardinality(DOMAIN conversations) + 1)

\* the record appendMessage stores; its id stands for the random UUID
ChatMessage(id, conversationId, role, content) ==
    [id |-> id, conversationId |-> conversationId, role |-> role, content |-> content]

\* the store after appendMessage wrote the message
AppendMessage(store, conversationId, role, content) ==
    [store EXCEPT
        !.conversations = [c \in DOMAIN @ |->
                              IF c = conversationId
                              THEN Append(@[c], ChatMessage(store.messages + 1,
                                                            conversationId, role, content))
                              ELSE @[c]],
        !.messages = @ + 1]

\* the error of a call leaves processQuery (it is logged and thrown again)
QueryThrows(error, message) ==
    /\ result' = Thrown(error, message)
    /\ pc' = "thrown"

\* POST /agent/query: processQuery up to its first await
ProcessQuery ==
    /\ pc \in {"idle", "returned", "thrown"}
    /\ idx < MaxQueries
    /\ \E query \in ChatQueries,
          conversationId \in {"", UnknownConversation} \cup DOMAIN state.conversations :
          userInput' = [query |-> query, conversationId |-> conversationId]
    /\ idx' = idx + 1
    /\ locals' = [NoCall EXCEPT !.known = DOMAIN state.conversations,
                                !.messageIds = 1..state.messages]
    /\ result' = NoResult
    /\ pc' = IF Len(pipeline) > 0 THEN "executing" ELSE "resolving"
    /\ UNCHANGED <<pipeline, orderedNodeIds, warnings, state, steps, inflight, calls>>

\* executePipeline of the first pipeline returns or throws
PipelineSettles ==
    /\ pc = "executing"
    /\ \/ \E finalOutput \in ChatFinalOutputs :
             /\ locals' = [locals EXCEPT !.response = finalOutput]
             /\ pc' = "resolving"
             /\ UNCHANGED result
       \/ /\ QueryThrows("Error", "model invocation failed")
          /\ UNCHANGED locals
    /\ UNCHANGED <<pipeline, userInput, orderedNodeIds, warnings, idx, state, steps,
                   inflight, calls>>

\* resolveConversationHistory: the conversation of the request is read, or a
\* conversation is created when the request names none
ResolveConversationHistory ==
    /\ pc = "resolving"
    /\ IF userInput.conversationId # ""
       THEN /\ locals' = [locals EXCEPT !.conversationId = userInput.conversationId]
            /\ UNCHANGED state
       ELSE LET id == NewConversationId(state.conversations)
            IN  /\ state' = [state EXCEPT !.conversations = (id :> <<>>) @@ @]
                /\ locals' = [locals EXCEPT !.conversationId = id]
    /\ pc' = "appendUser"
    /\ UNCHANGED <<pipeline, userInput, orderedNodeIds, warnings, idx, steps, inflight,
                   calls, result>>

\* a query of the chat database fails: the call throws; an appendMessage that
\* fails at its second statement has stored the message
StoreFails ==
    /\ state.enabled
    /\ pc \in {"resolving", "appendUser", "appendAssistant"}
    /\ \/ UNCHANGED state
       \/ /\ pc # "resolving"
          /\ locals.conversationId \in DOMAIN state.conversations
          /\ state' = AppendMessage(state, locals.conversationId,
                                    IF pc = "appendUser" THEN "user" ELSE "assistant",
                                    IF pc = "appendUser" THEN userInput.query
                                    ELSE locals.response)
    /\ QueryThrows("Error", "chat database query failed")
    /\ UNCHANGED <<pipeline, userInput, orderedNodeIds, warnings, idx, steps, inflight,
                   locals, calls>>

\* appendMessage(conversationId, 'user', query): a conversation that is not
\* stored makes it throw (no such key in memory, the foreign key in the tables)
AppendUserMessage ==
    /\ pc = "appendUser"
    /\ IF locals.conversationId \in DOMAIN state.conversations
       THEN /\ state' = AppendMessage(state, locals.conversationId, "user",
                                      userInput.query)
            /\ pc' = IF Len(pipeline) > 0 THEN "appendAssistant" ELSE "invoking"
            /\ UNCHANGED result
       ELSE /\ QueryThrows("Error", "Conversation " \o locals.conversationId
                                    \o " does not exist in memory")
            /\ UNCHANGED state
    /\ UNCHANGED <<pipeline, userInput, orderedNodeIds, warnings, idx, steps, inflight,
                   locals, calls>>

\* what processQuery returns
QueryResponse(response, conversationId) ==
    [kind |-> "return", response |-> response, conversationId |-> conversationId]

\* this.agent.invoke settles: the reply is extracted from the last message and
\* stored when it is not empty
AgentSettles ==
    /\ pc = "invoking"
    /\ \/ \E lastMessage \in AgentLastMessages :
             LET content == GetProp(lastMessage, "content")
                 response == ExtractContentFromMessage(
                                 IF IsNullish(content) THEN lastMessage ELSE content)
             IN  /\ locals' = [locals EXCEPT !.response = response]
                 /\ IF response # ""
                    THEN /\ pc' = "appendAssistant"
                         /\ UNCHANGED result
                    ELSE /\ pc' = "returned"
                         /\ result' = QueryResponse(response, locals.conversationId)
       \/ /\ QueryThrows("Error", "model invocation failed")
          /\ UNCHANGED locals
    /\ UNCHANGED <<pipeline, userInput, orderedNodeIds, warnings, idx, state, steps,
                   inflight, calls>>

\* appendMessage(conversationId, 'assistant', response), then the call returns
AppendAssistantMessage ==
    /\ pc = "appendAssistant"
    /\ IF locals.conversationId \in DOMAIN state.conversations
       THEN /\ state' = AppendMessage(state, locals.conversationId, "assistant",
                                      locals.response)
            /\ pc' = "returned"
            /\ result' = QueryResponse(locals.response, locals.conversationId)
       ELSE /\ QueryThrows("Error", "Conversation " \o locals.conversationId
                                    \o " does not exist in memory")
            /\ UNCHANGED state
    /\ UNCHANGED <<pipeline, userInput, orderedNodeIds, warnings, idx, steps, inflight,
                   locals, calls>>

NextChat ==
    \/ ProcessQuery
    \/ PipelineSettles
    \/ ResolveConversationHistory
    \/ StoreFails
    \/ AppendUserMessage
    \/ AgentSettles
    \/ AppendAssistantMessage

SpecChat == InitChat /\ [][NextChat]_vars

\* the messages the call stored in the conversation, in the stored order
StoredByCall(conversationId) ==
    SelectSeq(state.conversations[conversationId],
              LAMBDA m : m.id \notin locals.messageIds)

\* C34: a processQuery call that returns successfully returns the id of a
\* stored conversation holding the call's user turn and, after it, the call's
\* assistant turn, and a conversation was created in the call exactly when the
\* request carried no conversationId.
C34_BothTurnsStored ==
    pc = "returned" =>
        /\ result.conversationId \in DOMAIN state.conversations
        /\ StoredByCall(result.conversationId)
              = << ChatMessage(state.messages - 1, result.conversationId, "user",
                               userInput.query),
                   ChatMessage(state.messages, result.conversationId, "assistant",
                               result.response) >>
        /\ (userInput.conversationId = "")
              <=> (DOMAIN state.conversations # locals.known)
        /\ userInput.conversationId # "" => result.conversationId = userInput.conversationId


----------------------------------------------------------------------------
(* Termination of a run: the while loop of buildExecutionOrder taken one   *)
(* iteration at a time, then the loop over the nodes with its awaited calls *)

LiveNodePool ==
    { Node("Intent", "llm", NoConfig),
      Node("kb", "retriever", [source |-> "faq", top_k |-> 1]),
      Node("", "tool", [toolName |-> "mock_location_api"]) }

LiveNodeLists ==
    { ns \in UNION { [1..k -> LiveNodePool] : k \in 1..MaxRunNodes } :
        Distinct([i \in DOMAIN ns |-> ns[i].id]) }

InitLive ==
    /\ \E ns \in LiveNodeLists :
          \E e \in RunEdgeChoices([i \in DOMAIN ns |-> ns[i].id]) :
             pipeline = Pipeline(ns, e)
    /\ userInput = "Need Oil"
    /\ pc = "idle"
    /\ orderedNodeIds = <<>>
    /\ warnings = <<>>
    /\ idx = 0
    /\ state = NoState
    /\ steps = <<>>
    /\ inflight = {}
    /\ locals = <<>>
    /\ calls = <<>>
    /\ result = NoResult

\* executePipeline is called: the state is created, and buildExecutionOrder
\* returns at once without edges or sets up its maps and its queue
BeginExecution ==
    /\ pc = "idle"
    /\ state' = InitialState(userInput)
    /\ steps' = <<>>
    /\ IF EdgesLength(pipeline) = 0
       THEN /\ orderedNodeIds' = NodeIds(pipeline)
            /\ idx' = 1
            /\ pc' = "loop"
            /\ UNCHANGED locals
       ELSE /\ locals' = [queue |-> InitialQueue(pipeline), order |-> <<>>,
                          inc |-> IncomingCount(pipeline), adj |-> Adjacency(pipeline)]
            /\ pc' = "ordering"
            /\ UNCHANGED <<orderedNodeIds, idx>>
    /\ UNCHANGED <<pipeline, userInput, warnings, inflight, calls, result>>

\* an iteration that reads the head of the queue and removes it only when it
\* is visited
KahnStepPeek ==
    /\ pc = "ordering"
    /\ Len(locals.queue) > 0
    /\ LET current == Head(locals.queue)
       IN  IF current = ""
           THEN UNCHANGED locals
           ELSE LET v == VisitNeighbors(MapGet(locals.adj, current, <<>>),
                                        Tail(locals.queue), locals.inc)
                IN  locals' = [locals EXCEPT !.queue = v.queue, !.inc = v.inc,
                                             !.order = Append(@, current)]
    /\ UNCHANGED <<pipeline, userInput, pc, orderedNodeIds, warnings, idx, state, steps,
                   inflight, calls, result>>

\* one iteration of while (queue.length)
KahnStep ==
    /\ pc = "ordering"
    /\ Len(locals.queue) > 0
    /\ LET shifted == QueueShift(locals.queue)
           current == shifted.current
       IN  IF current = ""
           THEN locals' = [locals EXCEPT !.queue = shifted.rest]
           ELSE LET v == VisitNeighbors(MapGet(locals.adj, current, <<>>),
                                        shifted.rest, locals.inc)
                IN  locals' = [locals EXCEPT !.queue = v.queue, !.inc = v.inc,
                                             !.order = Append(@, current)]
    /\ UNCHANGED <<pipeline, userInput, pc, orderedNodeIds, warnings, idx, state, steps,
                   inflight, calls, result>>

\* the queue is empty: the nodes the loop left are appended and the order is
\* returned to executePipeline
KahnDone ==
    /\ pc = "ordering"
    /\ Len(locals.queue) = 0
    /\ IF NeedsSweep(locals.order, pipeline)
       THEN /\ orderedNodeIds' = locals.order \o Remaining(locals.order, pipeline)
            /\ warnings' = Append(warnings, CyclicWarning)
       ELSE /\ orderedNodeIds' = locals.order
            /\ UNCHANGED warnings
    /\ idx' = 1
    /\ locals' = <<>>
    /\ pc' = "loop"
    /\ UNCHANGED <<pipeline, userInput, state, steps, inflight, calls, result>>

\* the steps the run takes by itself
LiveRunSteps ==
    \/ BeginExecution
    \/ KahnStep
    \/ KahnDone
    \/ SkipMissingNode
    \/ StartLlmNode
    \/ StartRetrieverNode
    \/ StartToolNode
    \/ Finish

\* an awaited call settles
LiveSettles ==
    \/ LlmResolve
    \/ LlmReject
    \/ EmbedResolve
    \/ EmbedReject
    \/ VectorSettle
    \/ ToolSettle

NextLive == LiveRunSteps \/ LiveSettles

\* the loop is at an llm or a retriever node: its call can be started
CanStartCall == pc = "loop" /\ AtNode /\ CurrentNode.type \in {"llm", "retriever"}

\* the run awaits semanticSearch
AwaitsVectorStore == pc = "vector"

\* The runtime resumes a run that can continue (the synchronous code between
\* two awaits runs to its end) and every awaited call settles. The fairness
\* of the steps that interpolate, tokenize or rank is weak fairness written
\* out, WF_vars(A) == []<>~ENABLED <<A>>_vars \/ []<><<A>>_vars, with the
\* enabling condition given by the guard of the step.
SpecLive ==
    /\ InitLive
    /\ [][NextLive]_vars
    /\ WF_vars(BeginExecution \/ KahnStep \/ KahnDone \/ SkipMissingNode
                  \/ StartToolNode \/ Finish)
    /\ ([]<>~CanStartCall) \/ ([]<><<StartLlmNode \/ StartRetrieverNode>>_vars)
    /\ WF_vars(LlmResolve \/ EmbedResolve \/ ToolSettle)
    /\ ([]<>~AwaitsVectorStore) \/ ([]<><<VectorSettle>>_vars)

\* the run returned its result or an exception left it
RunEnded == pc \in {"returned", "thrown"}

\* C35: when every awaited call settles, a run returns a result or aborts
\* (the loops of the ordering and of the execution end, for cyclic graphs
\* too); and a run that awaits a call has not ended and goes on only when the
\* call settles, so that it never ends when the call never settles.
C35_RunTerminates ==
    /\ <>RunEnded
    /\ [][Awaiting => (~RunEnded /\ inflight # {} /\ LiveSettles)]_vars

C35_Witness ==
    /\ pc = "returned"
    /\ pipeline.hasEdges /\ Len(pipeline.edges) = 2
    /\ CyclicWarning \in Range(warnings)
    /\ orderedNodeIds = BuildExecutionOrder(pipeline)
    /\ Len(steps) = 2
    /\ Len(calls) >= 2


----------------------------------------------------------------------------
(* Runs whose nodes have ids that differ in letter case only, and whose    *)
(* inputs and outputs hold placeholders: SpecTokens                        *)

\* two llm nodes named kb and KB, and nodes whose prompt asks for one of them
LowerNode == Node("kb", "llm", NoConfig)

UpperNode == Node("KB", "llm", NoConfig)

AskingNodes ==
    { Node("Ask", "llm", [prompt |-> "{kb}|{input}"]),
      Node("Ask", "llm", [prompt |-> "{KB}|{input}"]) }

InitTokens ==
    /\ \E a \in {LowerNode, UpperNode}, b \in {LowerNode, UpperNode}, ask \in AskingNodes :
          /\ a # b
          /\ pipeline \in { Pipeline(ns, [hasEdges |-> FALSE, edges |-> <<>>]) :
                               ns \in { <<a, ask>>, <<a, b, ask>>, <<a, ask, b>> } }
    /\ userInput \in UserInputs
    /\ pc = "idle"
    /\ orderedNodeIds = <<>>
    /\ warnings = <<>>
    /\ idx = 0
    /\ state = NoState
    /\ steps = <<>>
    /\ inflight = {}
    /\ locals = <<>>
    /\ calls = <<>>
    /\ result = NoResult

NextTokens ==
    \/ ExecutePipeline
    \/ StartLlmNode
    \/ LlmResolve
    \/ LlmReject
    \/ Finish

SpecTokens == InitTokens /\ [][NextTokens]_vars

\* the id between the braces of an asking node's prompt
AskedId(node) == SubSeq(node.config.prompt, 2, 3)

\* the calls of the asking node
AskingCalls ==
    { i \in DOMAIN calls : calls[i].kind = "llm" /\ calls[i].nodeId = "Ask" }

AskingNode == pipeline.nodes[FindNode(pipeline, "Ask")]

\* C37: once the node with id N has executed, {N} resolves to the output of
\* N itself, whether a node whose id differs from N in letter case only
\* executed before N, after N or not at all.
C37_ExactIdResolvesOwnOutput ==
    \A c \in AskingCalls :
        \A i \in 1..calls[c].stepsAtCall :
            steps[i].nodeId = AskedId(AskingNode) =>
                calls[c].arg = OutputText(steps[i].output) \o "|" \o userInput

\* C38: the text put in place of a placeholder stands in the prompt as it is
\* stored: a prompt "{input}" is the user's input and a prompt "{N}|{input}"
\* is a stored output, "|" and the user's input, whatever placeholders the
\* input and the output hold.
C38_SinglePass ==
    \A c \in DOMAIN calls :
        calls[c].kind = "llm" =>
            IF c \in AskingCalls
            THEN \E i \in 1..calls[c].stepsAtCall :
                    calls[c].arg = OutputText(steps[i].output) \o "|" \o userInput
            ELSE calls[c].arg = userInput

\* the prompt held the output "see {input}" and the input "{context}?" as
\* they were stored, when the context was not empty
C38_Witness ==
    /\ pc = "returned"
    /\ userInput = "{context}?"
    /\ \E c \in AskingCalls :
          /\ calls[c].arg = "see {input}|{context}?"
          /\ calls[c].stateAtCall.context # ""
    /\ calls[1].arg = "{context}?"


----------------------------------------------------------------------------
(* Configuration errors are found when the loop reaches the node           *)

\* the errors runRetrieverNode, runToolNode and the loop throw for a node whose
\* configuration cannot be run
ConfigurationErrors == {"BadRequestException", "NotFoundException"}

\* the kind of the first external call a node of the type makes
FirstCallKind(type) ==
    CASE type = "llm" -> "llm"
      [] type = "retriever" -> "embedding"
      [] type = "tool" -> "tool"

\* C39: a run that aborts with a configuration error aborts at the invalid
\* node the loop has reached: every declared node before it in the execution
\* order was valid, made its external call and recorded its step; nothing is
\* validated before the first node runs.
C39_ConfigurationErrorsAreLazy ==
    (pc = "thrown" /\ result.error \in ConfigurationErrors) =>
        /\ idx \in DOMAIN orderedNodeIds
        /\ IsDeclared(orderedNodeIds[idx])
        /\ InvalidNode(NodeById(orderedNodeIds[idx]))
        /\ \A j \in 1..(idx - 1) :
              IsDeclared(orderedNodeIds[j]) =>
                  LET node == NodeById(orderedNodeIds[j])
                  IN  /\ ~InvalidNode(node)
                      /\ CallsOf(node.id, FirstCallKind(node.type)) # {}
                      /\ \E i \in DOMAIN steps : steps[i].nodeId = node.id

\* the run aborted at its second node, whose source the index does not have,
\* after the model had been called for the first node
C39_Witness ==
    /\ pc = "thrown" /\ idx = 2
    /\ result.error = "NotFoundException"
    /\ NodeById(orderedNodeIds[1]).type = "llm"
    /\ CallsOf(orderedNodeIds[1], "llm") # {}
    /\ WithoutEntries(NodeById(orderedNodeIds[2]))


----------------------------------------------------------------------------
(* syncSource, one statement at a time: the rows of a source are replaced  *)
(* in a transaction of the vector store                                     *)

\* the indexed entries of the source: with an embedding and without one
SyncEntryPool ==
    { EmbeddedEntry(OilEntry, <<1, 0>>),
      EmbeddedEntry(RefundsEntry, <<0, 1>>),
      IndexedEntry([title |-> "Tires", content |-> "Rotate"]) }

SyncEntryLists == { es \in SeqsUpTo(SyncEntryPool, MaxSourceEntries) : Distinct(es) }

\* the rows knowledge_vectors holds for the source before the call
PreviousRows ==
    { <<>>, << RowOf([id |-> "kb-old", title |-> "Old", content |-> "Stale"]) >> }

InitSync ==
    /\ pipeline = Pipeline(<<>>, [hasEdges |-> FALSE, edges |-> <<>>])
    /\ userInput = ""
    /\ pc = "idle"
    /\ orderedNodeIds = <<>>
    /\ warnings = <<>>
    /\ idx = 0
    /\ state = NoState
    /\ steps = <<>>
    /\ inflight = {}
    /\ \E entries \in SyncEntryLists, previous \in PreviousRows :
          locals = [source |-> "faq", entries |-> entries, previous |-> previous,
                    rows |-> previous, transaction |-> <<>>, todo |-> <<>>,
                    client |-> "none"]
    /\ calls = <<>>
    /\ result = NoResult

\* syncSource is called: nothing is done for a source without entries, else a
\* client is asked of the pool
SyncSourceCalled ==
    /\ pc = "idle"
    /\ pc' = IF locals.entries = <<>> THEN "returned" ELSE "connecting"
    /\ UNCHANGED <<pipeline, userInput, orderedNodeIds, warnings, idx, state, steps,
                   inflight, locals, calls, result>>

\* pool.connect() resolves with a client
ConnectResolves ==
    /\ pc = "connecting"
    /\ locals' = [locals EXCEPT !.client = "held"]
    /\ pc' = "BEGIN"
    /\ UNCHANGED <<pipeline, userInput, orderedNodeIds, warnings, idx, state, steps,
                   inflight, calls, result>>

\* pool.connect() rejects: the call is outside the try, the error leaves
\* syncSource
ConnectRejects ==
    /\ pc = "connecting"
    /\ result' = Thrown("Error", "connection refused")
    /\ pc' = "thrown"
    /\ UNCHANGED <<pipeline, userInput, orderedNodeIds, warnings, idx, state, steps,
                   inflight, locals, calls>>

\* the entries an INSERT is made for
EntriesToInsert(entries) ==
    SelectSeq(entries, LAMBDA e : Has(e, "embedding") /\ e.embedding # <<>>)

\* the statement the client was sent resolves: BEGIN opens the transaction,
\* DELETE and the INSERTs change its rows, COMMIT makes them the rows of the
\* table, and the finally block releases the client
StatementResolves ==
    /\ pc \in {"BEGIN", "DELETE", "INSERT", "COMMIT"}
    /\ calls' = Append(calls, pc)
    /\ CASE pc = "BEGIN" ->
              /\ locals' = [locals EXCEPT !.transaction = locals.rows]
              /\ pc' = "DELETE"
              /\ UNCHANGED inflight
         [] pc = "DELETE" ->
              /\ locals' = [locals EXCEPT !.transaction = <<>>,
                                          !.todo = EntriesToInsert(locals.entries)]
              /\ pc' = IF EntriesToInsert(locals.entries) = <<>> THEN "COMMIT"
                       ELSE "INSERT"
              /\ UNCHANGED inflight
         [] pc = "INSERT" ->
              /\ locals' = [locals EXCEPT
                               !.transaction = Append(@, RowOf(Head(locals.todo))),
                               !.todo = Tail(@)]
              /\ pc' = IF Tail(locals.todo) = <<>> THEN "COMMIT" ELSE "INSERT"
              /\ UNCHANGED inflight
         [] pc = "COMMIT" ->
              /\ locals' = [locals EXCEPT !.rows = locals.transaction,
                                          !.transaction = <<>>,
                                          !.client = "released"]
              /\ pc' = "returned"
              /\ UNCHANGED inflight
    /\ UNCHANGED <<pipeline, userInput, orderedNodeIds, warnings, idx, state, steps,
                   result>>

\* the statement rejects: the catch block sends ROLLBACK
StatementRejects ==
    /\ pc \in {"BEGIN", "DELETE", "INSERT", "COMMIT"}
    /\ inflight' = {pc}
    /\ pc' = "ROLLBACK"
    /\ UNCHANGED <<pipeline, userInput, orderedNodeIds, warnings, idx, state, steps,
                   locals, calls, result>>

\* ROLLBACK resolves: the transaction is dropped, the failure is logged and
\* the client released
RollbackResolves ==
    /\ pc = "ROLLBACK"
    /\ locals' = [locals EXCEPT !.transaction = <<>>, !.client = "released"]
    /\ warnings' = Append(warnings, "Failed to sync vector store for source \""
                                    \o locals.source \o "\"")
    /\ pc' = "returned"
    /\ UNCHANGED <<pipeline, userInput, orderedNodeIds, idx, state, steps, inflight,
                   calls, result>>

\* ROLLBACK rejects too (the connection is lost, the server drops the
\* transaction): the error leaves the catch block before the failure is
\* logged; the finally block releases the client
RollbackRejects ==
    /\ pc = "ROLLBACK"
    /\ locals' = [locals EXCEPT !.transaction = <<>>, !.client = "released"]
    /\ result' = Thrown("Error", "connection terminated")
    /\ pc' = "thrown"
    /\ UNCHANGED <<pipeline, userInput, orderedNodeIds, warnings, idx, state, steps,
                   inflight, calls>>

NextSync ==
    \/ SyncSourceCalled
    \/ ConnectResolves
    \/ ConnectRejects
    \/ StatementResolves
    \/ StatementRejects
    \/ RollbackResolves
    \/ RollbackRejects

SpecSync == InitSync /\ [][NextSync]_vars

\* syncSource has returned or thrown
SyncEnded == pc \in {"returned", "thrown"}

\* C36: the rows the table holds for the source are at every moment the
\* previous rows or the rows of the new entries that have an embedding; when
\* syncSource has ended the client is released, a failed statement has left
\* the previous rows and was logged, and no error has left syncSource.
C36_SyncAllOrNothing ==
    /\ locals.rows \in {locals.previous, SyncedRows(locals.entries)}
    /\ SyncEnded =>
          /\ locals.client # "held"
          /\ locals.transaction = <<>>
          /\ pc # "thrown"
          /\ inflight # {} => /\ locals.rows = locals.previous
                              /\ Len(warnings) = 1
          /\ (inflight = {} /\ locals.entries # <<>>) =>
                locals.rows = SyncedRows(locals.entries)

====
